---- MODULE Spec2Model ----
(***************************************************************************)
(* popsicle-cache: the cache decision engine of src/index.ts (the latest   *)
(* variant in src/unnamed/part_000, lines 453-939).                        *)
(*                                                                         *)
(* Time is in whole seconds: HTTP dates and max-age have a resolution of   *)
(* one second and the clock is read at whole seconds, so every duration    *)
(* the code computes in milliseconds is 1000 times the model's value.      *)
(* JavaScript numbers that may be null, NaN or Infinity are records        *)
(* [t, v]; absent strings are the value Undefined.                         *)
(***************************************************************************)
EXTENDS Integers, Sequences, FiniteSets, TLC

VARIABLES config, now, store, calls, produced, engine, fsQueue, ops

vars == <<config, now, store, calls, produced, engine, fsQueue, ops>>

(***************************************************************************)
(* Bounds of the model.                                                    *)
(***************************************************************************)
\* The clock runs from 0 to MaxTicks seconds.
MaxTicks == 3

\* serializers.stream(maxBufferLength): the most bytes a body may have to be
\* cached (the code's default is 1000 * 1000).
MaxBufferLength == 2

\* The number of calls that run concurrently for one id.
NumRacers == 2

\* The number of operations submitted to the file store.
NumOps == 4

\* The bytes a PassThrough holds before its write returns false (Node's default
\* highWaterMark is 16384 for each side).
HighWaterMark == 3

\* One year in seconds, the default maxTtl: `1000 * 60 * 60 * 24 * 365` ms.
OneYear == 60 * 60 * 24 * 365

(***************************************************************************)
(* JavaScript values.                                                      *)
(***************************************************************************)
Undefined == "<undefined>"

Num(n) == [t |-> "num", v |-> n]
NaN == [t |-> "nan", v |-> 0]
JsNull == [t |-> "null", v |-> 0]
Infinity == [t |-> "inf", v |-> 0]

\* a - b on numbers (no Infinity operand occurs).
JsSub(a, b) ==
  IF a.t = "num" /\ b.t = "num" THEN Num(a.v - b.v) ELSE NaN

\* a + b.
JsAdd(a, b) ==
  IF a.t = "nan" \/ b.t = "nan" THEN NaN
  ELSE IF a.t = "inf" \/ b.t = "inf" THEN Infinity
  ELSE Num(a.v + b.v)

\* a / 10; the dates of the model differ by multiples of ten seconds.
JsDiv10(a) ==
  IF a.t = "num" THEN Num(a.v \div 10) ELSE a

\* Math.min(a, b).
JsMin(a, b) ==
  IF a.t = "nan" \/ b.t = "nan" THEN NaN
  ELSE IF a.t = "inf" THEN b
  ELSE IF b.t = "inf" THEN a
  ELSE IF a.v <= b.v THEN a ELSE b

\* a < b; a comparison with NaN is false.
JsLt(a, b) ==
  IF a.t = "nan" \/ b.t = "nan" THEN FALSE
  ELSE IF a.t = "inf" THEN FALSE
  ELSE IF b.t = "inf" THEN TRUE
  ELSE a.v < b.v

\* The date strings of the model and the instant (in seconds) each denotes.
DateValue ==
  ("@0" :> 0) @@ ("@1" :> 1) @@ ("@2" :> 2) @@ ("@10" :> 10) @@ ("@20" :> 20)

\* Date.parse: NaN for a string that is not a date.
DateParse(d) ==
  IF d \in DOMAIN DateValue THEN Num(DateValue[d]) ELSE NaN

(***************************************************************************)
(* Requests and responses (the popsicle shapes the code consumes).         *)
(***************************************************************************)
Methods == {"GET", "POST"}
Urls == {"/a"}

\* A Cache-Control header is the set of its directives; the empty set is the
\* absent (or empty, equally falsy) header.
Tok(d) == [d |-> d, n |-> 0]
MaxAgeTok(n) == [d |-> "max-age", n |-> n]

Hdr(cc, expires, date, lastModified, etag, vary, ae) ==
  [cc |-> cc, expires |-> expires, date |-> date, lastModified |-> lastModified,
   etag |-> etag, vary |-> vary, ae |-> ae]

NoHeaders == Hdr({}, Undefined, Undefined, Undefined, Undefined, <<>>, Undefined)

\* res.get(name) for the string-valued headers of a response.
ResGet(res, name) ==
  CASE name = "Expires" -> res.headers.expires
    [] name = "Date" -> res.headers.date
    [] name = "Last-Modified" -> res.headers.lastModified
    [] name = "ETag" -> res.headers.etag
    [] name = "Accept-Encoding" -> res.headers.ae
    [] OTHER -> Undefined

\* req.get(name)
ReqGet(req, name) ==
  IF name \in DOMAIN req.headers THEN req.headers[name] ELSE Undefined

\* req.set(name, value)
ReqSet(req, name, value) ==
  [req EXCEPT !.headers = [req.headers EXCEPT ![name] = value]]

\* res.statusType()
StatusType(res) == res.status \div 100

(***************************************************************************)
(* Header freshness calculator.                                            *)
(***************************************************************************)
getCacheControl(res) ==
  LET cacheControl == res.headers.cc
      age == {k \in cacheControl : k.d = "max-age"}
  IN [maxAge |-> IF age # {} THEN Num((CHOOSE k \in age : TRUE).n)
                 ELSE JsNull,
      noCache |-> Tok("no-cache") \in cacheControl,
      immutable |-> Tok("immutable") \in cacheControl,
      mustRevalidate |-> Tok("must-revalidate") \in cacheControl]

getExpiresIn(res) ==
  LET expires == ResGet(res, "Expires")
      date == ResGet(res, "Date")
  IN IF expires = Undefined \/ date = Undefined THEN JsNull
     ELSE JsSub(DateParse(expires), DateParse(date))

getLastModifiedExpiration(res) ==
  LET lastModified == ResGet(res, "Last-Modified")
      date == ResGet(res, "Date")
  IN IF lastModified = Undefined \/ date = Undefined THEN JsNull
     ELSE JsDiv10(JsSub(DateParse(date), DateParse(lastModified)))

\* The Vary header is held as the sequence of names its split yields.
getVary(res) == res.headers.vary

(***************************************************************************)
(* Cache key and policy functions.                                         *)
(***************************************************************************)
\* The predicate as the README words it: a no-cache response is declined.
cacheables_standard_noCacheDeclined(req, res) ==
  res.status = 200 /\ req.method = "GET" /\ ~getCacheControl(res).noCache

\* A predicate that accepts a GET response of any status.
cacheables_standard_anyStatus(req, res) ==
  req.method = "GET"

\* A standard policy that forgets the method.
cacheables_standard_statusOnly(req, res) ==
  res.status = 200

cacheables_standard(req, res) ==
  res.status = 200 /\ req.method = "GET"

cacheables_always(req, res) == TRUE

\* A ttl function that gives a response without any freshness the longest ttl.
ttls_standard_noneIsMax(minTtl, maxTtl, res) ==
  LET cacheControl == getCacheControl(res)
      expiresIn == getExpiresIn(res)
      lastModified == getLastModifiedExpiration(res)
      freshness ==
        IF cacheControl.maxAge.t # "null" THEN cacheControl.maxAge
        ELSE IF expiresIn.t # "null" THEN expiresIn
        ELSE IF lastModified.t # "null" THEN lastModified
        ELSE Num(maxTtl)
  IN JsAdd(Num(minTtl), JsMin(Num(maxTtl), freshness))

\* A ttl function that looks at Expires before max-age.
ttls_standard_expiresFirst(minTtl, maxTtl, res) ==
  LET cacheControl == getCacheControl(res)
      expiresIn == getExpiresIn(res)
      lastModified == getLastModifiedExpiration(res)
      freshness ==
        IF expiresIn.t # "null" THEN expiresIn
        ELSE IF cacheControl.maxAge.t # "null" THEN cacheControl.maxAge
        ELSE IF lastModified.t # "null" THEN lastModified
        ELSE Num(0)
  IN JsAdd(Num(minTtl), JsMin(Num(maxTtl), freshness))

\* ttls.standard(minTtl, maxTtl) applied to a response.
ttls_standard(minTtl, maxTtl, res) ==
  LET cacheControl == getCacheControl(res)
      expiresIn == getExpiresIn(res)
      lastModified == getLastModifiedExpiration(res)
      freshness ==
        IF cacheControl.maxAge.t # "null" THEN cacheControl.maxAge
        ELSE IF expiresIn.t # "null" THEN expiresIn
        ELSE IF lastModified.t # "null" THEN lastModified
        ELSE Num(0)
  IN JsAdd(Num(minTtl), JsMin(Num(maxTtl), freshness))

ttls_forever(res) == Infinity

\* An id that also tells requests apart by their Accept-Encoding.
getIds_standard_perEncoding(serializerName, req) ==
  <<serializerName, req.method, req.url, req.headers["Accept-Encoding"]>>

\* `${serializer.name}~${req.method}~${req.url}`
getIds_standard(serializerName, req) ==
  <<serializerName, req.method, req.url>>

(***************************************************************************)
(* serializers.standard(): JSON.stringify and JSON.parse on the bodies of  *)
(* the model. JSON.stringify(undefined) is undefined.                      *)
(***************************************************************************)
\* The body values of the model and the text JSON.stringify gives for each:
\* the strings b1, b2 and err, the object {success: true}, null, the number
\* NaN and a Buffer holding "b1".
JsonText ==
  ("b1" :> "\"b1\"") @@ ("b2" :> "\"b2\"") @@ ("err" :> "\"err\"")
  @@ ("{success:true}" :> "{\"success\":true}")
  @@ ("null" :> "null")
  @@ ("NaN" :> "null")
  @@ ("Buffer(b1)" :> "{\"type\":\"Buffer\",\"data\":[98,49]}")

\* The value JSON.parse gives for each of these texts; the last is a plain
\* object, not a Buffer.
JsonValue ==
  ("\"b1\"" :> "b1") @@ ("\"b2\"" :> "b2") @@ ("\"err\"" :> "err")
  @@ ("{\"success\":true}" :> "{success:true}")
  @@ ("null" :> "null")
  @@ ("{\"type\":\"Buffer\",\"data\":[98,49]}" :> "{type:Buffer,data:[98,49]}")

JSONStringify(value) ==
  IF value = Undefined THEN Undefined ELSE JsonText[value]

\* A parse that hands back the stored text.
JSONParse_raw(text) == text

JSONParse(text) == JsonValue[text]

\* The readable streams of the model (response bodies of the stream transport)
\* and the chunks each emits before it ends.
StreamChunks ==
  ("s:a" :> <<"a">>) @@ ("s:a,b" :> <<"a", "b">>) @@ ("s:ab,c" :> <<"ab", "c">>)
  @@ ("s:ab,c,a" :> <<"ab", "c", "a">>)

\* chunk.length
ChunkLength == ("a" :> 1) @@ ("b" :> 1) @@ ("c" :> 1) @@ ("ab" :> 2)

\* typeof stream.pipe === 'function'
IsStream(body) == body \in DOMAIN StreamChunks

\* stream.pipe(s): the PassThrough the response body is replaced by.
PassThrough(stream) ==
  CASE stream = "s:a" -> "PassThrough(s:a)"
    [] stream = "s:a,b" -> "PassThrough(s:a,b)"
    [] stream = "s:ab,c" -> "PassThrough(s:ab,c)"
    [] OTHER -> "PassThrough(s:ab,c,a)"

\* Buffer.concat(strings).toString('base64')
Base64Concat(strings) ==
  CASE strings = <<>> -> ""
    [] strings = <<"a">> -> "YQ=="
    [] strings = <<"a", "b">> -> "YWI="
    [] strings = <<"ab">> -> "YWI="
    [] strings = <<"ab", "c">> -> "YWJj"
    [] strings = <<"ab", "c", "a">> -> "YWJjYQ=="
    [] OTHER -> "?"

\* serializers.stream().parse: a Readable over the decoded bytes.
StreamParse(value) ==
  CASE value = "" -> "Readable()"
    [] value = "YQ==" -> "Readable(a)"
    [] value = "YWI=" -> "Readable(ab)"
    [] value = "YWJj" -> "Readable(abc)"
    [] value = "YWJjYQ==" -> "Readable(abca)"
    [] OTHER -> "Readable(?)"

\* The state of the listeners stringify puts on a stream: the chunks the stream
\* has yet to emit, the closure's `length` and `strings`, what stream.pipe(s)
\* has written to the PassThrough s (and whether it has ended it), and how many
\* of the written chunks the caller has read from s.
NoStream == [kind |-> "none"]
Listening(stream) ==
  [kind |-> "stream", left |-> StreamChunks[stream], length |-> 0, strings |-> <<>>,
   piped |-> <<>>, ended |-> FALSE, read |-> 0]

\* The bytes written to the PassThrough s that the caller has not read yet.
RECURSIVE Buffered(_, _)
Buffered(piped, read) ==
  IF read >= Len(piped) THEN 0
  ELSE ChunkLength[piped[Len(piped)]] + Buffered(SubSeq(piped, 1, Len(piped) - 1), read)

\* stream.pipe(s): s.write(chunk) returns false once s holds its high-water
\* mark, and pipe pauses the source until s drains.
paused(st) == Buffered(st.piped, st.read) >= HighWaterMark

\* stream.pipe(s): each chunk the stream emits is written to s.
pipeData(st, chunk) == [st EXCEPT !.piped = Append(@, chunk)]

\* stream.pipe(s): s is ended when the stream ends.
pipeEnd(st) == [st EXCEPT !.ended = TRUE]

\* A 'data' listener that retains every chunk.
onData_retainAll(st, chunk) ==
  [st EXCEPT !.length = @ + ChunkLength[chunk], !.strings = Append(@, chunk)]

\* stream.on('data', chunk => ...)
onData(st, chunk) ==
  IF st.length > MaxBufferLength THEN st
  ELSE [st EXCEPT !.length = @ + ChunkLength[chunk],
                  !.strings = IF st.length + ChunkLength[chunk] <= MaxBufferLength
                              THEN Append(@, chunk) ELSE @]

\* An 'end' listener that refuses a body of exactly the cap.
onEndContents_atCap(st) ==
  IF st.length >= MaxBufferLength THEN Undefined ELSE Base64Concat(st.strings)

\* stream.on('end', ...): what the listener passes to the callback (Undefined
\* stands for null).
onEndContents(st) ==
  IF st.length > MaxBufferLength THEN Undefined ELSE Base64Concat(st.strings)

(***************************************************************************)
(* The plugin's configuration and the values the environment supplies.     *)
(***************************************************************************)
Configs ==
  [cacheable : {"standard", "always"},
   handler : {"standard", "always"},
   staleFallback : BOOLEAN,
   serializer : {"json"},
   waitForCache : {FALSE},
   ttl : {[kind |-> "standard", minTtl |-> 0, maxTtl |-> OneYear]}]

Req(method, url, ae, accept) ==
  [method |-> method, url |-> url,
   headers |-> [k \in {"Accept-Encoding", "Accept", "If-None-Match",
                       "If-Modified-Since"} |->
                  CASE k = "Accept-Encoding" -> ae
                    [] k = "Accept" -> accept
                    [] OTHER -> Undefined]]

\* The requests a caller makes.
Requests ==
  {Req("GET", u, h[1], h[2]) :
     u \in Urls,
     h \in {<<Undefined, Undefined>>, <<"gzip", Undefined>>,
            <<"br", Undefined>>, <<"gzip", "json">>}}
  \cup {Req("POST", u, Undefined, Undefined) : u \in Urls}

Ids == {getIds_standard(n, r) : n \in {"json", "stream"}, r \in Requests}

StatusText(status) ==
  CASE status = 200 -> "OK"
    [] status = 304 -> "Not Modified"
    [] status = 404 -> "Not Found"
    [] OTHER -> "Bad Gateway"

Res(status, url, body, headers) ==
  [kind |-> "response", cached |-> FALSE, status |-> status,
   statusText |-> StatusText(status), url |-> url, body |-> body,
   headers |-> headers]

\* The header sets of the origin's cacheable responses.
HeaderProfiles ==
  { Hdr({}, Undefined, Undefined, Undefined, "123", <<>>, Undefined),
    Hdr({MaxAgeTok(1)}, Undefined, Undefined, Undefined, Undefined, <<>>, Undefined),
    Hdr({Tok("no-cache"), MaxAgeTok(2)}, Undefined, Undefined, Undefined, "123",
        <<>>, Undefined),
    Hdr({Tok("no-cache"), Tok("immutable"), MaxAgeTok(1)}, Undefined, Undefined,
        Undefined, Undefined, <<>>, Undefined),
    Hdr({MaxAgeTok(2), Tok("must-revalidate")}, Undefined, Undefined, Undefined,
        Undefined, <<>>, Undefined),
    Hdr({}, "@1", "@0", Undefined, Undefined, <<>>, Undefined),
    Hdr({}, Undefined, "@20", "@10", Undefined, <<>>, Undefined),
    Hdr({MaxAgeTok(2)}, Undefined, Undefined, Undefined, Undefined,
        <<"Accept-Encoding">>, Undefined),
    Hdr({MaxAgeTok(2)}, Undefined, Undefined, Undefined, Undefined,
        <<"Accept-Encoding", "Accept">>, "gzip") }

\* The responses the forwarded call can resolve with, for the request req.
Responses(req) ==
  (IF req.method = "GET"
   THEN {Res(200, req.url, "b1", h) : h \in HeaderProfiles}
        \cup {Res(200, req.url, "b2",
                  Hdr({MaxAgeTok(1)}, Undefined, Undefined, Undefined, Undefined,
                      <<>>, Undefined))}
   ELSE {Res(200, req.url, "b1",
             Hdr({MaxAgeTok(1)}, Undefined, Undefined, Undefined, Undefined,
                 <<>>, Undefined))})
  \cup (IF req.method = "GET"
        THEN {Res(404, req.url, "err", NoHeaders),
              Res(502, req.url, "err", NoHeaders)}
        ELSE {})
  \cup {Res(304, req.url, Undefined, NoHeaders)}

AllResponses == UNION {Responses(r) : r \in Requests}

Err(code) == [kind |-> "error", code |-> code]

\* The errors the forwarded call can reject with.
Errors == {Err("EUNAVAILABLE"), Err("ECONNRESET")}

NoEntry == [kind |-> "none"]

(***************************************************************************)
(* handlers.standard(), in the pieces its one await separates.             *)
(***************************************************************************)
\* A freshness refinement that measures max-age from the epoch, not from `stored`.
novalidate_sinceEpoch(cache, t) ==
  LET cacheControl == getCacheControl(cache)
      expiresIn == getExpiresIn(cache)
      lastModified == getLastModifiedExpiration(cache)
  IN IF cacheControl.immutable \/ ~cacheControl.noCache
     THEN IF cacheControl.maxAge.t # "null"
          THEN JsLt(Num(t), cacheControl.maxAge) /\ ~cacheControl.mustRevalidate
          ELSE IF expiresIn.t # "null"
          THEN JsLt(Num(t), JsAdd(Num(cache.stored), expiresIn))
          ELSE IF lastModified.t # "null"
          THEN JsLt(Num(t), JsAdd(Num(cache.stored), lastModified))
          ELSE ~cacheControl.mustRevalidate
     ELSE FALSE

\* A freshness refinement that still counts the last second of the window.
novalidate_inclusive(cache, t) ==
  LET cacheControl == getCacheControl(cache)
      expiresIn == getExpiresIn(cache)
      lastModified == getLastModifiedExpiration(cache)
  IN IF cacheControl.immutable \/ ~cacheControl.noCache
     THEN IF cacheControl.maxAge.t # "null"
          THEN JsLt(Num(t - 1), JsAdd(Num(cache.stored), cacheControl.maxAge))
               /\ ~cacheControl.mustRevalidate
          ELSE IF expiresIn.t # "null"
          THEN JsLt(Num(t - 1), JsAdd(Num(cache.stored), expiresIn))
          ELSE IF lastModified.t # "null"
          THEN JsLt(Num(t - 1), JsAdd(Num(cache.stored), lastModified))
          ELSE ~cacheControl.mustRevalidate
     ELSE FALSE

\* A freshness refinement whose no-cache gate lost its negation.
novalidate_noCacheGate(cache, t) ==
  LET cacheControl == getCacheControl(cache)
      expiresIn == getExpiresIn(cache)
      lastModified == getLastModifiedExpiration(cache)
  IN IF cacheControl.immutable \/ cacheControl.noCache
     THEN IF cacheControl.maxAge.t # "null"
          THEN JsLt(Num(t), JsAdd(Num(cache.stored), cacheControl.maxAge))
               /\ ~cacheControl.mustRevalidate
          ELSE IF expiresIn.t # "null"
          THEN JsLt(Num(t), JsAdd(Num(cache.stored), expiresIn))
          ELSE IF lastModified.t # "null"
          THEN JsLt(Num(t), JsAdd(Num(cache.stored), lastModified))
          ELSE ~cacheControl.mustRevalidate
     ELSE FALSE

\* `novalidate` after the freshness refinement, at time t.
novalidate(cache, t) ==
  LET cacheControl == getCacheControl(cache)
      expiresIn == getExpiresIn(cache)
      lastModified == getLastModifiedExpiration(cache)
  IN IF cacheControl.immutable \/ ~cacheControl.noCache
     THEN IF cacheControl.maxAge.t # "null"
          THEN JsLt(Num(t), JsAdd(Num(cache.stored), cacheControl.maxAge))
               /\ ~cacheControl.mustRevalidate
          ELSE IF expiresIn.t # "null"
          THEN JsLt(Num(t), JsAdd(Num(cache.stored), expiresIn))
          ELSE IF lastModified.t # "null"
          THEN JsLt(Num(t), JsAdd(Num(cache.stored), lastModified))
          ELSE ~cacheControl.mustRevalidate
     ELSE FALSE

\* A vary check that compares only the pairs whose stored value is present.
varies_concreteOnly(req, cache) ==
  \E i \in 1..Len(cache.varyHeaders) :
    LET key == cache.varyHeaders[i][1]
        value == cache.varyHeaders[i][2]
    IN value # Undefined /\ ReqGet(req, key) # value

\* A vary check that reads an absent stored value as "the header must be present".
varies_presence(req, cache) ==
  \E i \in 1..Len(cache.varyHeaders) :
    LET key == cache.varyHeaders[i][1]
        value == cache.varyHeaders[i][2]
    IN IF value = Undefined
       THEN ReqGet(req, key) = Undefined
       ELSE ReqGet(req, key) # value

\* `varies`: cache.varyHeaders.some(...)
varies(req, cache) ==
  \E i \in 1..Len(cache.varyHeaders) :
    LET key == cache.varyHeaders[i][1]
        value == cache.varyHeaders[i][2]
    IN IF value = Undefined
       THEN ReqGet(req, key) # Undefined
       ELSE ReqGet(req, key) # value

\* A handler that knows the ETag for its only validator.
setValidators_etagOnly(req, cache) ==
  IF ResGet(cache, "ETag") \notin {Undefined, ""}
  THEN ReqSet(req, "If-None-Match", ResGet(cache, "ETag"))
  ELSE req

\* The request with the validators of the cached response set on it.
setValidators(req, cache) ==
  LET r1 == IF ResGet(cache, "ETag") \notin {Undefined, ""}
            THEN ReqSet(req, "If-None-Match", ResGet(cache, "ETag"))
            ELSE req
  IN IF ResGet(cache, "Last-Modified") \notin {Undefined, ""}
     THEN ReqSet(r1, "If-Modified-Since", ResGet(cache, "Last-Modified"))
     ELSE r1

\* A merge that keeps the cached status.
mergeNotModified_keepStatus(cache, res) ==
  IF res.status = 304 THEN cache ELSE res

\* What the handler returns once next() has resolved with res.
mergeNotModified(cache, res) ==
  IF res.status = 304
  THEN [cache EXCEPT !.status = res.status, !.statusText = res.statusText]
  ELSE res

(***************************************************************************)
(* The plugin: shouldCache, handle and forceUpdate.                        *)
(***************************************************************************)
cacheable(req, res) ==
  IF config.cacheable = "standard" THEN cacheables_standard(req, res)
  ELSE cacheables_always(req, res)

\* A ttl that counts from the plugin's start rather than from the write.
ttl_sinceStart(req, res) ==
  JsAdd(Num(now), ttls_standard(config.ttl.minTtl, config.ttl.maxTtl, res))

ttl(req, res) ==
  IF config.ttl.kind = "standard"
  THEN ttls_standard(config.ttl.minTtl, config.ttl.maxTtl, res)
  ELSE ttls_forever(res)

getId(req) == getIds_standard(config.serializer, req)

\* serializer.parse
parse(value) ==
  IF config.serializer = "json" THEN JSONParse(value) ELSE StreamParse(value)

\* new CachedResponse({...}) from a store result.
CachedResponse(result) ==
  [kind |-> "response", cached |-> TRUE,
   ttl |-> result.ttl, stored |-> result.stored,
   varyHeaders |-> result.item.varyHeaders,
   url |-> result.item.url,
   body |-> parse(result.item.body),
   headers |-> result.item.rawHeaders,
   status |-> result.item.status,
   statusText |-> result.item.statusText]

\* The CacheItem setCache builds from the response.
CacheItem(contents, res) ==
  [body |-> contents,
   rawHeaders |-> res.headers,
   url |-> res.url,
   status |-> res.status,
   statusText |-> res.statusText,
   varyHeaders |-> [i \in 1..Len(getVary(res)) |->
                      <<getVary(res)[i], ResGet(res, getVary(res)[i])>>]]

Calls == {"c1"}

IdleCall ==
  [pc |-> "idle", op |-> "none", req |-> Req("GET", "/a", Undefined, Undefined),
   id |-> getIds_standard("json", Req("GET", "/a", Undefined, Undefined)),
   found |-> NoEntry, cached |-> NoEntry, decision |-> "NONE", novalidate |-> FALSE, at |-> 0,
   gets |-> 0, forwards |-> 0, fwd |-> NoEntry, ranCacheable |-> FALSE,
   ranStringify |-> FALSE, sets |-> 0, pending |-> NoEntry,
   stream |-> NoStream, callbacks |-> 0, adopted |-> FALSE, write |-> "none",
   errors |-> <<>>, sunk |-> <<>>,
   outcome |-> "none", result |-> NoEntry]

Resolve(call, res) ==
  [call EXCEPT !.pc = "done", !.outcome = "resolved", !.result = res]

Reject(call, err) ==
  [call EXCEPT !.pc = "done", !.outcome = "rejected", !.result = err]

\* The TypeError stringify throws for a body that is not a stream.
TypeError == [kind |-> "error", code |-> Undefined, name |-> "TypeError"]

\* resolve(value) on the promise of shouldCache: it settles unless it has
\* settled or has been resolved with the store write's promise before.
PromiseResolve(call) ==
  IF call.outcome = "none" /\ ~call.adopted
  THEN [call EXCEPT !.outcome = "resolved"]
  ELSE call

\* resolve(promise): the promise of shouldCache follows the store write's.
PromiseAdopt(call) ==
  IF call.outcome = "none" /\ ~call.adopted
  THEN [call EXCEPT !.adopted = TRUE]
  ELSE call

\* A sink that is never told.
catchCacheError_silent(call, err) == call

\* catchCacheError(err): the configured sink is handed the error.
catchCacheError(call, err) ==
  [call EXCEPT !.sunk = Append(@, err)]

\* setCache(err, contents), the serializer's completion callback; NoEntry is
\* no error and Undefined is null contents.
setCache(call, err, contents) ==
  LET fired == [call EXCEPT !.callbacks = @ + 1]
  IN IF err # NoEntry
     THEN [PromiseResolve(catchCacheError(fired, err)) EXCEPT !.pc = "done"]
     ELSE IF contents = Undefined
     THEN [PromiseResolve(fired) EXCEPT !.pc = "done"]
     ELSE PromiseAdopt([fired EXCEPT !.pc = "set",
                                     !.sets = @ + 1,
                                     !.write = "pending",
                                     !.pending = [kind |-> "set",
                                                  item |-> CacheItem(contents, call.result),
                                                  ttl |-> ttl(call.req, call.result)]])

\* A plugin that never waits for the cache.
resolvesEarly_always(call) == TRUE

\* `!waitForCache`
resolvesEarly(call) == ~config.waitForCache

\* `if (!waitForCache) return resolve()`, once stringify has returned.
afterStringify(call) ==
  IF resolvesEarly(call) THEN PromiseResolve(call) ELSE call

\* A shouldCache that hands the error of stringify to the sink and returns
\* the response.
shouldCache_sunk(call, res) ==
  IF ~cacheable(call.req, res)
  THEN Resolve([call EXCEPT !.ranCacheable = TRUE], res)
  ELSE LET ran == [call EXCEPT !.ranCacheable = TRUE, !.ranStringify = TRUE,
                               !.result = res]
       IN IF config.serializer = "json"
          THEN afterStringify(setCache(ran, NoEntry, JSONStringify(res.body)))
          ELSE IF ~IsStream(res.body)
          THEN Resolve(catchCacheError(ran, TypeError), res)
          ELSE afterStringify(
                 [ran EXCEPT !.pc = "stream",
                             !.stream = Listening(res.body),
                             !.result = [res EXCEPT !.body = PassThrough(res.body)]])

\* shouldCache up to its first suspension: the standard serializer calls
\* setCache before stringify returns; the stream serializer listens to the
\* stream and returns the PassThrough it is piped to.
shouldCache(call, res) ==
  IF ~cacheable(call.req, res)
  THEN Resolve([call EXCEPT !.ranCacheable = TRUE], res)
  ELSE LET ran == [call EXCEPT !.ranCacheable = TRUE, !.ranStringify = TRUE,
                               !.result = res]
       IN IF config.serializer = "json"
          THEN afterStringify(setCache(ran, NoEntry, JSONStringify(res.body)))
          ELSE IF ~IsStream(res.body)
          THEN Reject(ran, TypeError)
          ELSE afterStringify(
                 [ran EXCEPT !.pc = "stream",
                             !.stream = Listening(res.body),
                             !.result = [res EXCEPT !.body = PassThrough(res.body)]])

\* `cache.set(...).catch(catchCacheError)`: the write failed.
afterSetRejects(call, err) ==
  Resolve(catchCacheError([call EXCEPT !.write = "failed"], err), call.result)

\* A handler that sets the validators before it decides on freshness.
handlers_standard_sync_validatorsFirst(req, cache, t) ==
  IF novalidate(cache, t) /\ ~varies(req, cache)
  THEN [return |-> TRUE, novalidate |-> TRUE, req |-> setValidators(req, cache)]
  ELSE [return |-> FALSE, novalidate |-> novalidate(cache, t),
        req |-> setValidators(req, cache)]

\* The synchronous part of handlers.standard(): whether it returns the cached
\* response at once, and the request as it leaves it.
handlers_standard_sync(req, cache, t) ==
  IF novalidate(cache, t) /\ ~varies(req, cache)
  THEN [return |-> TRUE, novalidate |-> TRUE, req |-> req]
  ELSE [return |-> FALSE, novalidate |-> novalidate(cache, t),
        req |-> setValidators(req, cache)]

\* An always handler that serves the cached response only while it is fresh.
handlers_always_sync_whileFresh(req, cache, t) ==
  handlers_standard_sync(req, cache, t)

\* handlers.always(): the cached response is returned at once.
handlers_always_sync(req, cache, t) ==
  [return |-> TRUE, novalidate |-> FALSE, req |-> req]

\* `handler`: the configured handler, up to its first await or return.
handler_sync(req, cache, t) ==
  IF config.handler = "always" THEN handlers_always_sync(req, cache, t)
  ELSE handlers_standard_sync(req, cache, t)

\* A catch clause that reads err.type, which these errors do not carry.
recoverable_errType(err) ==
  "type" \in DOMAIN err /\ config.staleFallback

\* A catch clause that ignores the staleFallback option.
recoverable_ignoreFlag(err) ==
  err.code = "EUNAVAILABLE"

\* The catch clause of handle: the error is swallowed for the stale response.
recoverable(err) ==
  err.code = "EUNAVAILABLE" /\ config.staleFallback

\* A stale check that knows only status 500.
staleOnServerError_only500(res) ==
  config.staleFallback /\ res.status = 500

\* `staleFallback && res.statusType() === 5`
staleOnServerError(res) ==
  config.staleFallback /\ StatusType(res) = 5

\* handle without the check, as before CachedResponse was a class.
skipShouldCache_never(res) == FALSE

\* `res instanceof CachedResponse`
skipShouldCache(res) == res.cached

\* A handle that writes the stale response back when it falls back on it.
handleTail_rewritesStale(call, response, res) ==
  IF staleOnServerError(res) THEN shouldCache(call, [response EXCEPT !.cached = FALSE])
  ELSE IF skipShouldCache(res) THEN Resolve(call, res)
  ELSE shouldCache(call, res)

\* handle once the handler has returned res for the cached response.
handleTail(call, response, res) ==
  IF staleOnServerError(res) THEN Resolve(call, response)
  ELSE IF skipShouldCache(res) THEN Resolve(call, res)
  ELSE shouldCache(call, res)

\* handle from the resolution of cache.get(id) to its next await or return.
handleAfterGet(call, result, t) ==
  IF result = NoEntry
  THEN [call EXCEPT !.pc = "forward", !.decision = "MISS", !.forwards = @ + 1,
                    !.at = t]
  ELSE LET response == CachedResponse(result)
           found == [call EXCEPT !.found = result, !.cached = response, !.at = t]
           sync == handler_sync(call.req, response, t)
       IN IF sync.return
          THEN handleTail([found EXCEPT !.decision = "FRESH_HIT",
                                        !.novalidate = sync.novalidate,
                                        !.req = sync.req],
                          response, response)
          ELSE [found EXCEPT !.pc = "forward",
                             !.decision = "REVALIDATE",
                             !.novalidate = sync.novalidate,
                             !.req = sync.req,
                             !.forwards = @ + 1]

\* handle (or forceUpdate) from the resolution of next() with res.
handleAfterNext(call, res) ==
  LET got == [call EXCEPT !.fwd = res]
  IN IF call.op = "forceUpdate" \/ call.cached = NoEntry
     THEN shouldCache(got, res)
     ELSE handleTail(got, call.cached, mergeNotModified(call.cached, res))

\* A lookup whose failure is taken for a miss.
handleAfterGetThrow_asMiss(call, err) ==
  [call EXCEPT !.pc = "forward", !.decision = "MISS", !.forwards = @ + 1]

\* A lookup whose failure is handed to the sink before the call rejects.
handleAfterGetThrow_sunk(call, err) ==
  Reject(catchCacheError(call, err), err)

\* handle from the rejection of cache.get(id) with err: nothing catches it.
handleAfterGetThrow(call, err) ==
  Reject(call, err)

\* handle (or forceUpdate) from the rejection of next() with err.
handleAfterThrow(call, err) ==
  LET got == [call EXCEPT !.fwd = err]
  IN IF call.op = "handle" /\ call.cached # NoEntry /\ recoverable(err)
     THEN Resolve(got, call.cached)
     ELSE Reject(got, err)

(***************************************************************************)
(* The file store of the older releases (Store, with its per-key queue of  *)
(* file operations): its keys and the operations submitted to it, numbered *)
(* in the order of submission.                                             *)
(***************************************************************************)
Keys == {"k1", "k2"}
Ops == 1..NumOps

\* `fsQueue[key]` when the key has no entry, and the promise an operation
\* that heads a queue was not chained to.
NoOp == 0

\* An operation that has not been submitted: `st` is "new", then "waiting"
\* (its handler is a then-callback that has not run), "running" (handle() was
\* called and its file operation is in progress) or "finished"; `after` is the
\* operation whose promise the handler was chained to, and `removed` says
\* whether the `remove` registered on the operation's promise has run.
NewOp == [st |-> "new", key |-> "k1", after |-> NoOp, removed |-> FALSE]

(***************************************************************************)
(* The state machine.                                                      *)
(***************************************************************************)
Init ==
  /\ config \in Configs
  /\ now = 0
  /\ store = [id \in Ids |-> NoEntry]
  /\ calls = [c \in Calls |-> IdleCall]
  /\ produced = [id \in Ids |-> NoEntry]
  /\ engine = "started"
  /\ fsQueue = [key \in Keys |-> NoOp]
  /\ ops = [i \in Ops |-> NewOp]

\* A caller invokes handle(req, next); it suspends on the store lookup.
HandleCall(c, req) ==
  /\ calls[c].pc \in {"idle", "done"}
  /\ calls' = [calls EXCEPT ![c] = [IdleCall EXCEPT !.pc = "get",
                                                     !.op = "handle",
                                                     !.req = req,
                                                     !.id = getId(req),
                                                     !.gets = 1]]
  /\ UNCHANGED <<config, now, store, produced, engine, fsQueue, ops>>

\* A lookup that waits while another call for the same id is in flight.
HandleGet_singleFlight(c) ==
  /\ calls[c].pc = "get"
  /\ \A d \in DOMAIN calls \ {c} :
       ~(calls[d].pc \in {"forward", "set"} /\ calls[d].id = calls[c].id)
  /\ calls' = [calls EXCEPT ![c] = handleAfterGet(calls[c], store[calls[c].id], now)]
  /\ UNCHANGED <<config, now, store, produced, engine, fsQueue, ops>>

\* cache.get(id) resolves and handle runs on.
HandleGet(c) ==
  /\ calls[c].pc = "get"
  /\ calls' = [calls EXCEPT ![c] = handleAfterGet(calls[c], store[calls[c].id], now)]
  /\ UNCHANGED <<config, now, store, produced, engine, fsQueue, ops>>

\* A forceUpdate that looks the id up in the store before it forwards.
ForceUpdateCall_viaLookup(c, req) ==
  /\ calls[c].pc \in {"idle", "done"}
  /\ calls' = [calls EXCEPT ![c] = [IdleCall EXCEPT !.pc = "get",
                                                     !.op = "forceUpdate",
                                                     !.req = req,
                                                     !.id = getId(req),
                                                     !.gets = 1]]
  /\ UNCHANGED <<config, now, store, produced, engine, fsQueue, ops>>

\* A caller invokes forceUpdate(req, next), which forwards at once.
ForceUpdateCall(c, req) ==
  /\ calls[c].pc \in {"idle", "done"}
  /\ calls' = [calls EXCEPT ![c] = [IdleCall EXCEPT !.pc = "forward",
                                                     !.op = "forceUpdate",
                                                     !.req = req,
                                                     !.id = getId(req),
                                                     !.at = now,
                                                     !.forwards = 1]]
  /\ UNCHANGED <<config, now, store, produced, engine, fsQueue, ops>>

\* The forwarded call resolves with a response.
ForwardResolves(c, res) ==
  /\ calls[c].pc = "forward"
  /\ res \in Responses(calls[c].req)
  /\ calls' = [calls EXCEPT ![c] = handleAfterNext(calls[c], res)]
  /\ UNCHANGED <<config, now, store, produced, engine, fsQueue, ops>>

\* The forwarded call rejects.
ForwardRejects(c, err) ==
  /\ calls[c].pc = "forward"
  /\ calls' = [calls EXCEPT ![c] = handleAfterThrow(calls[c], err)]
  /\ UNCHANGED <<config, now, store, produced, engine, fsQueue, ops>>

\* A store that keeps the varyHeaders of the entry it already holds.
SetLands_merging(c) ==
  /\ calls[c].pc = "set"
  /\ store' = [store EXCEPT ![calls[c].id] =
                 [kind |-> "entry",
                  item |-> IF store[calls[c].id] = NoEntry THEN calls[c].pending.item
                           ELSE [calls[c].pending.item EXCEPT !.varyHeaders =
                                   store[calls[c].id].item.varyHeaders],
                  stored |-> now, ttl |-> calls[c].pending.ttl]]
  /\ calls' = [calls EXCEPT ![c] = Resolve([calls[c] EXCEPT !.write = "landed"],
                                          calls[c].result)]
  /\ UNCHANGED <<config, now, engine, fsQueue, ops>>

\* cache.set(id, item, ttl) lands: the store replaces what it held for the id.
SetLands(c) ==
  /\ calls[c].pc = "set"
  /\ store' = [store EXCEPT ![calls[c].id] =
                 [kind |-> "entry", item |-> calls[c].pending.item,
                  stored |-> now, ttl |-> calls[c].pending.ttl]]
  /\ calls' = [calls EXCEPT ![c] = Resolve([calls[c] EXCEPT !.write = "landed"],
                                          calls[c].result)]
  /\ UNCHANGED <<config, now, engine, fsQueue, ops>>

\* The store write lands and the call resolves with the response.
SetResolves(c) ==
  /\ SetLands(c)
  /\ UNCHANGED produced

\* The external store drops an entry whose ttl has run out.
StoreExpire(id) ==
  /\ store[id] # NoEntry
  /\ store[id].ttl.t # "inf"
  /\ store[id].ttl.t = "num" => now >= store[id].stored + store[id].ttl.v
  /\ store' = [store EXCEPT ![id] = NoEntry]
  /\ UNCHANGED <<config, now, calls, produced, engine, fsQueue, ops>>

\* A second passes.
Tick ==
  /\ now < MaxTicks
  /\ now' = now + 1
  /\ UNCHANGED <<config, store, calls, produced, engine, fsQueue, ops>>

Next ==
  \/ \E c \in Calls, req \in Requests : HandleCall(c, req)
  \/ \E c \in Calls : HandleGet(c)
  \/ \E c \in Calls, req \in Requests : ForceUpdateCall(c, req)
  \/ \E c \in Calls, res \in AllResponses : ForwardResolves(c, res)
  \/ \E c \in Calls, err \in Errors : ForwardRejects(c, err)
  \/ \E c \in Calls : SetResolves(c)
  \/ \E id \in Ids : StoreExpire(id)
  \/ Tick

Spec == Init /\ [][Next]_vars

(***************************************************************************)
(* The plugin with either serializer and either waitForCache, over a store *)
(* whose reads and writes can fail and streams that can fail.              *)
(***************************************************************************)
AsyncConfigs ==
  [cacheable : {"standard"},
   handler : {"standard"},
   staleFallback : {TRUE},
   serializer : {"json", "stream"},
   waitForCache : BOOLEAN,
   ttl : {[kind |-> "standard", minTtl |-> 0, maxTtl |-> OneYear]}]

\* The errors the store's get and set can reject with, and a stream can emit.
StoreErrors == {Err("ESTORE")}
StreamErrors == {Err("ESTREAM")}

\* The responses of the stream transport: the body is a readable stream.
StreamResponses(req) ==
  IF req.method = "GET"
  THEN {Res(200, req.url, b, h) :
          b \in DOMAIN StreamChunks,
          h \in {Hdr({MaxAgeTok(2)}, Undefined, Undefined, Undefined, Undefined,
                      <<>>, Undefined),
                 Hdr({Tok("no-cache"), MaxAgeTok(2)}, Undefined, Undefined,
                     Undefined, "123", <<>>, Undefined)}}
  ELSE {}

AllStreamResponses == UNION {StreamResponses(r) : r \in Requests}

\* cache.get(id) rejects.
GetRejects(c, err) ==
  /\ calls[c].pc = "get"
  /\ calls' = [calls EXCEPT ![c] =
                 handleAfterGetThrow(
                   [calls[c] EXCEPT !.errors = Append(@, [from |-> "get", err |-> err])],
                   err)]
  /\ UNCHANGED <<config, now, store, produced, engine, fsQueue, ops>>

\* The forwarded call resolves with a response of the stream transport.
ForwardStreams(c, res) ==
  /\ calls[c].pc = "forward"
  /\ config.serializer = "stream"
  /\ res \in StreamResponses(calls[c].req)
  /\ calls' = [calls EXCEPT ![c] = handleAfterNext(calls[c], res)]
  /\ UNCHANGED <<config, now, store, produced, engine, fsQueue, ops>>

\* The stream emits its next chunk.
StreamData(c) ==
  /\ calls[c].pc = "stream"
  /\ calls[c].stream.left # <<>>
  /\ calls' = [calls EXCEPT ![c].stream =
                 [pipeData(onData(@, Head(@.left)), Head(@.left))
                    EXCEPT !.left = Tail(@)]]
  /\ UNCHANGED <<config, now, store, produced, engine, fsQueue, ops>>

\* The stream ends.
StreamEnd(c) ==
  /\ calls[c].pc = "stream"
  /\ calls[c].stream.left = <<>>
  /\ calls' = [calls EXCEPT ![c] =
                 setCache([calls[c] EXCEPT !.stream = pipeEnd(@)], NoEntry,
                          onEndContents(calls[c].stream))]
  /\ UNCHANGED <<config, now, store, produced, engine, fsQueue, ops>>

\* The stream emits an error instead of ending.
StreamError(c, err) ==
  /\ calls[c].pc = "stream"
  /\ calls' = [calls EXCEPT ![c] =
                 setCache([calls[c] EXCEPT !.errors =
                             Append(@, [from |-> "serializer", err |-> err])],
                          err, Undefined)]
  /\ UNCHANGED <<config, now, store, produced, engine, fsQueue, ops>>

\* cache.set(id, item, ttl) rejects.
SetRejects(c, err) ==
  /\ calls[c].pc = "set"
  /\ calls' = [calls EXCEPT ![c] =
                 afterSetRejects(
                   [calls[c] EXCEPT !.errors = Append(@, [from |-> "set", err |-> err])],
                   err)]
  /\ UNCHANGED <<config, now, store, produced, engine, fsQueue, ops>>

InitAsync ==
  /\ config \in AsyncConfigs
  /\ now = 0
  /\ store = [id \in Ids |-> NoEntry]
  /\ calls = [c \in Calls |-> IdleCall]
  /\ produced = [id \in Ids |-> NoEntry]
  /\ engine = "started"
  /\ fsQueue = [key \in Keys |-> NoOp]
  /\ ops = [i \in Ops |-> NewOp]

NextAsync ==
  \/ \E c \in Calls, req \in Requests : HandleCall(c, req)
  \/ \E c \in Calls : HandleGet(c)
  \/ \E c \in Calls, err \in StoreErrors : GetRejects(c, err)
  \/ \E c \in Calls, req \in Requests : ForceUpdateCall(c, req)
  \/ \E c \in Calls, res \in AllResponses : ForwardResolves(c, res)
  \/ \E c \in Calls, res \in AllStreamResponses : ForwardStreams(c, res)
  \/ \E c \in Calls, err \in Errors : ForwardRejects(c, err)
  \/ \E c \in Calls : StreamData(c)
  \/ \E c \in Calls : StreamEnd(c)
  \/ \E c \in Calls, err \in StreamErrors : StreamError(c, err)
  \/ \E c \in Calls : SetResolves(c)
  \/ \E c \in Calls, err \in StoreErrors : SetRejects(c, err)
  \/ \E id \in Ids : StoreExpire(id)
  \/ Tick

SpecAsync == InitAsync /\ [][NextAsync]_vars

(***************************************************************************)
(* The plugin under each ttl policy, with responses whose max-age, Expires,*)
(* Date and Last-Modified headers vary independently.                      *)
(***************************************************************************)
TtlConfigs ==
  [cacheable : {"standard"},
   handler : {"standard"},
   staleFallback : {TRUE},
   serializer : {"json"},
   waitForCache : {FALSE},
   ttl : {[kind |-> "standard", minTtl |-> 0, maxTtl |-> OneYear],
          [kind |-> "standard", minTtl |-> 1, maxTtl |-> 2],
          [kind |-> "forever", minTtl |-> 0, maxTtl |-> 0]}]

\* The header sets of the dated responses: "bogus" is a string Date.parse
\* does not understand.
DatedProfiles ==
  {Hdr(cc, expires, date, lastModified, Undefined, <<>>, Undefined) :
     cc \in {{}, {MaxAgeTok(0)}, {MaxAgeTok(3)}},
     expires \in {Undefined, "@1", "bogus"},
     date \in {Undefined, "@0", "@10"},
     lastModified \in {Undefined, "@0", "@20"}}

\* The requests made for them.
DatedRequests == {Req("GET", u, Undefined, Undefined) : u \in Urls}

DatedResponses(req) ==
  IF req.method = "GET"
  THEN {Res(200, req.url, "b1", h) : h \in DatedProfiles}
  ELSE {}

AllDatedResponses == UNION {DatedResponses(r) : r \in DatedRequests}

\* The forwarded call resolves with a dated response.
ForwardDated(c, res) ==
  /\ calls[c].pc = "forward"
  /\ res \in DatedResponses(calls[c].req)
  /\ calls' = [calls EXCEPT ![c] = handleAfterNext(calls[c], res)]
  /\ UNCHANGED <<config, now, store, produced, engine, fsQueue, ops>>

InitTtl ==
  /\ config \in TtlConfigs
  /\ now = 0
  /\ store = [id \in Ids |-> NoEntry]
  /\ calls = [c \in Calls |-> IdleCall]
  /\ produced = [id \in Ids |-> NoEntry]
  /\ engine = "started"
  /\ fsQueue = [key \in Keys |-> NoOp]
  /\ ops = [i \in Ops |-> NewOp]

\* The clock stands still: every lookup is made in the second of the write.
NextTtl ==
  \/ \E c \in Calls, req \in DatedRequests : HandleCall(c, req)
  \/ \E c \in Calls : HandleGet(c)
  \/ \E c \in Calls, req \in DatedRequests : ForceUpdateCall(c, req)
  \/ \E c \in Calls, res \in AllDatedResponses : ForwardDated(c, res)
  \/ \E c \in Calls : SetResolves(c)
  \/ \E id \in Ids : StoreExpire(id)

SpecTtl == InitTtl /\ [][NextTtl]_vars

(***************************************************************************)
(* The same plugin under its default options, with a record of the call    *)
(* that wrote each entry (`produced` is history, the code never reads it). *)
(***************************************************************************)
\* The request as the caller passed it, before the handler set validators.
AsIssued(req) ==
  ReqSet(ReqSet(req, "If-None-Match", Undefined), "If-Modified-Since", Undefined)

\* The history of a write: who issued it, for which request and response, and
\* how many writes in a row (up to 2) carried the same three to a live entry.
Written(call, before, live) ==
  LET this == [kind |-> "write", op |-> call.op, req |-> AsIssued(call.req),
               res |-> call.fwd, n |-> 1]
  IN IF live /\ before # NoEntry /\ [before EXCEPT !.n = 1] = this
     THEN [this EXCEPT !.n = 2]
     ELSE this

\* The store write lands, and the history records it.
SetResolvesRecorded(c) ==
  /\ SetLands(c)
  /\ produced' = [produced EXCEPT ![calls[c].id] =
                    Written(calls[c], produced[calls[c].id],
                            store[calls[c].id] # NoEntry)]

DefaultConfigs ==
  {k \in Configs : /\ k.cacheable = "standard"
                   /\ k.handler = "standard"
                   /\ k.staleFallback}

InitVary ==
  /\ Init
  /\ config \in DefaultConfigs

NextVary ==
  \/ \E c \in Calls, req \in Requests : HandleCall(c, req)
  \/ \E c \in Calls : HandleGet(c)
  \/ \E c \in Calls, req \in Requests : ForceUpdateCall(c, req)
  \/ \E c \in Calls, res \in AllResponses : ForwardResolves(c, res)
  \/ \E c \in Calls, err \in Errors : ForwardRejects(c, err)
  \/ \E c \in Calls : SetResolvesRecorded(c)
  \/ \E id \in Ids : StoreExpire(id)
  \/ Tick

SpecVary == InitVary /\ [][NextVary]_vars

(***************************************************************************)
(* NumRacers concurrent calls for one id under the default options; the    *)
(* history records the call behind each write.                             *)
(***************************************************************************)
Racers == 1..NumRacers

RaceRequests == {Req("GET", u, Undefined, Undefined) : u \in Urls}

RaceResponses(req) ==
  {Res(200, req.url, "b1",
       Hdr({MaxAgeTok(1)}, Undefined, Undefined, Undefined, Undefined, <<>>, Undefined)),
   Res(200, req.url, "b2",
       Hdr({Tok("no-cache"), MaxAgeTok(2)}, Undefined, Undefined, Undefined, "123",
           <<"Accept-Encoding">>, Undefined)),
   Res(304, req.url, Undefined, NoHeaders)}

AllRaceResponses == UNION {RaceResponses(r) : r \in RaceRequests}

\* The forwarded call of one of the racing calls resolves.
ForwardRace(c, res) ==
  /\ calls[c].pc = "forward"
  /\ res \in RaceResponses(calls[c].req)
  /\ calls' = [calls EXCEPT ![c] = handleAfterNext(calls[c], res)]
  /\ UNCHANGED <<config, now, store, produced, engine, fsQueue, ops>>

\* The store write of a racing call lands; the history keeps the response the
\* call made the item from.
SetLandsRace(c) ==
  /\ SetLands(c)
  /\ produced' = [produced EXCEPT ![calls[c].id] =
                    [kind |-> "write", op |-> calls[c].op, res |-> calls[c].result]]

InitRace ==
  /\ config \in DefaultConfigs
  /\ now = 0
  /\ store = [id \in Ids |-> NoEntry]
  /\ calls = [c \in Racers |-> IdleCall]
  /\ produced = [id \in Ids |-> NoEntry]
  /\ engine = "started"
  /\ fsQueue = [key \in Keys |-> NoOp]
  /\ ops = [i \in Ops |-> NewOp]

NextRace ==
  \/ \E c \in Racers, req \in RaceRequests : HandleCall(c, req)
  \/ \E c \in Racers : HandleGet(c)
  \/ \E c \in Racers, req \in RaceRequests : ForceUpdateCall(c, req)
  \/ \E c \in Racers, res \in AllRaceResponses : ForwardRace(c, res)
  \/ \E c \in Racers : SetLandsRace(c)

SpecRace == InitRace /\ [][NextRace]_vars

(***************************************************************************)
(* The plugin from its construction on: `pending`, the promise of          *)
(* startYourEngine, is unsettled when plugin() returns the operations, and *)
(* every call awaits it first.                                             *)
(***************************************************************************)
\* The error cache.start hands to its callback.
StartError == Err("ESTART")

\* cache.start calls back without an error: `pending` resolves.
EngineStarts ==
  /\ engine = "starting"
  /\ engine' = "started"
  /\ UNCHANGED <<config, now, store, calls, produced, fsQueue, ops>>

\* cache.start calls back with an error: `pending` rejects.
EngineFails ==
  /\ engine = "starting"
  /\ engine' = "failed"
  /\ UNCHANGED <<config, now, store, calls, produced, fsQueue, ops>>

\* A caller invokes handle(req, next); it suspends on `await pending`.
HandleAwaits(c, req) ==
  /\ calls[c].pc \in {"idle", "done"}
  /\ calls' = [calls EXCEPT ![c] = [IdleCall EXCEPT !.pc = "pending",
                                                     !.op = "handle",
                                                     !.req = req,
                                                     !.id = getId(req)]]
  /\ UNCHANGED <<config, now, store, produced, engine, fsQueue, ops>>

\* A forceUpdate that evaluates next() before it awaits `pending`.
ForceUpdateAwaits_forwardFirst(c, req) ==
  /\ calls[c].pc \in {"idle", "done"}
  /\ calls' = [calls EXCEPT ![c] = [IdleCall EXCEPT !.pc = "pending",
                                                     !.op = "forceUpdate",
                                                     !.req = req,
                                                     !.id = getId(req),
                                                     !.forwards = 1]]
  /\ UNCHANGED <<config, now, store, produced, engine, fsQueue, ops>>

\* A caller invokes forceUpdate(req, next); `await pending` is the first
\* argument it evaluates.
ForceUpdateAwaits(c, req) ==
  /\ calls[c].pc \in {"idle", "done"}
  /\ calls' = [calls EXCEPT ![c] = [IdleCall EXCEPT !.pc = "pending",
                                                     !.op = "forceUpdate",
                                                     !.req = req,
                                                     !.id = getId(req)]]
  /\ UNCHANGED <<config, now, store, produced, engine, fsQueue, ops>>

\* `await pending` yields the cache: handle goes on to cache.get(id),
\* forceUpdate to next().
PendingResolves(c) ==
  /\ engine = "started"
  /\ calls[c].pc = "pending"
  /\ calls' = [calls EXCEPT ![c] =
                 IF calls[c].op = "handle"
                 THEN [calls[c] EXCEPT !.pc = "get", !.gets = 1]
                 ELSE [calls[c] EXCEPT !.pc = "forward", !.at = now, !.forwards = 1]]
  /\ UNCHANGED <<config, now, store, produced, engine, fsQueue, ops>>

\* `await pending` throws the start error: the call rejects with it.
PendingRejects(c) ==
  /\ engine = "failed"
  /\ calls[c].pc = "pending"
  /\ calls' = [calls EXCEPT ![c] = Reject(calls[c], StartError)]
  /\ UNCHANGED <<config, now, store, produced, engine, fsQueue, ops>>

InitEngine ==
  /\ config \in DefaultConfigs
  /\ now = 0
  /\ store = [id \in Ids |-> NoEntry]
  /\ calls = [c \in Calls |-> IdleCall]
  /\ produced = [id \in Ids |-> NoEntry]
  /\ engine = "starting"
  /\ fsQueue = [key \in Keys |-> NoOp]
  /\ ops = [i \in Ops |-> NewOp]

NextEngine ==
  \/ EngineStarts
  \/ EngineFails
  \/ \E c \in Calls, req \in Requests : HandleAwaits(c, req)
  \/ \E c \in Calls, req \in Requests : ForceUpdateAwaits(c, req)
  \/ \E c \in Calls : PendingResolves(c)
  \/ \E c \in Calls : PendingRejects(c)
  \/ \E c \in Calls : HandleGet(c)
  \/ \E c \in Calls, res \in AllResponses : ForwardResolves(c, res)
  \/ \E c \in Calls, err \in Errors : ForwardRejects(c, err)
  \/ \E c \in Calls : SetResolves(c)

SpecEngine == InitEngine /\ [][NextEngine]_vars

(***************************************************************************)
(* The plugin under its default options over a store that does not retain  *)
(* an entry whose ttl is zero or less: the write replaces what the store   *)
(* held and the entry is gone before any lookup.                           *)
(***************************************************************************)
SetLandsUnretained(c) ==
  /\ calls[c].pc = "set"
  /\ store' = [store EXCEPT ![calls[c].id] =
                 IF calls[c].pending.ttl.t = "num" /\ calls[c].pending.ttl.v <= 0
                 THEN NoEntry
                 ELSE [kind |-> "entry", item |-> calls[c].pending.item,
                       stored |-> now, ttl |-> calls[c].pending.ttl]]
  /\ calls' = [calls EXCEPT ![c] = Resolve([calls[c] EXCEPT !.write = "landed"],
                                          calls[c].result)]
  /\ produced' = [produced EXCEPT ![calls[c].id] =
                    Written(calls[c], produced[calls[c].id], FALSE)]
  /\ UNCHANGED <<config, now, engine, fsQueue, ops>>

InitUnretained ==
  /\ Init
  /\ config \in DefaultConfigs

NextUnretained ==
  \/ \E c \in Calls, req \in Requests : HandleCall(c, req)
  \/ \E c \in Calls : HandleGet(c)
  \/ \E c \in Calls, req \in Requests : ForceUpdateCall(c, req)
  \/ \E c \in Calls, res \in AllResponses : ForwardResolves(c, res)
  \/ \E c \in Calls, err \in Errors : ForwardRejects(c, err)
  \/ \E c \in Calls : SetLandsUnretained(c)

SpecUnretained == InitUnretained /\ [][NextUnretained]_vars

(***************************************************************************)
(* The plugin under its default options with response bodies of every kind *)
(* of value, and the history of the writes.                                *)
(***************************************************************************)
BodyValues == DOMAIN JsonText

BodyResponses(req) ==
  IF req.method = "GET"
  THEN {Res(200, req.url, v,
            Hdr({MaxAgeTok(1)}, Undefined, Undefined, Undefined, Undefined, <<>>,
                Undefined)) : v \in BodyValues}
       \cup {Res(200, req.url, Undefined,
                 Hdr({MaxAgeTok(1)}, Undefined, Undefined, Undefined, Undefined, <<>>,
                     Undefined))}
  ELSE {}

AllBodyResponses == UNION {BodyResponses(r) : r \in Requests}

\* The forwarded call resolves with a response carrying one of the bodies.
ForwardBody(c, res) ==
  /\ calls[c].pc = "forward"
  /\ res \in BodyResponses(calls[c].req)
  /\ calls' = [calls EXCEPT ![c] = handleAfterNext(calls[c], res)]
  /\ UNCHANGED <<config, now, store, produced, engine, fsQueue, ops>>

InitBodies ==
  /\ Init
  /\ config \in DefaultConfigs

NextBodies ==
  \/ \E c \in Calls, req \in Requests : HandleCall(c, req)
  \/ \E c \in Calls : HandleGet(c)
  \/ \E c \in Calls, req \in Requests : ForceUpdateCall(c, req)
  \/ \E c \in Calls, res \in AllBodyResponses : ForwardBody(c, res)
  \/ \E c \in Calls : SetResolvesRecorded(c)

SpecBodies == InitBodies /\ [][NextBodies]_vars

(***************************************************************************)
(* The standard handler over entries of every combination of freshness     *)
(* headers; the ttl is ttls.forever(), so that the store holds an entry    *)
(* past its window.                                                        *)
(***************************************************************************)
FreshConfigs == {k \in TtlConfigs : k.ttl.kind = "forever"}

FreshProfiles ==
  {Hdr(cc \cup age, expires, date, lastModified, Undefined, <<>>, Undefined) :
     cc \in SUBSET {Tok("no-cache"), Tok("immutable"), Tok("must-revalidate")},
     age \in {{}, {MaxAgeTok(2)}},
     expires \in {Undefined, "@2", "bogus"},
     date \in {Undefined, "@0", "@20"},
     lastModified \in {Undefined, "@0", "@10"}}

FreshResponses(req) ==
  IF req.method = "GET"
  THEN {Res(200, req.url, "b1", h) : h \in FreshProfiles}
       \cup {Res(304, req.url, Undefined, NoHeaders)}
  ELSE {}

AllFreshResponses == UNION {FreshResponses(r) : r \in DatedRequests}

\* The forwarded call resolves: with one of these responses on a miss, with
\* a 304 on a revalidation.
ForwardFresh(c, res) ==
  /\ calls[c].pc = "forward"
  /\ calls[c].req.method = "GET" /\ res.url = calls[c].req.url
  /\ (res.status = 304) = (calls[c].cached # NoEntry)
  /\ calls' = [calls EXCEPT ![c] = handleAfterNext(calls[c], res)]
  /\ UNCHANGED <<config, now, store, produced, engine, fsQueue, ops>>

InitFresh ==
  /\ config \in FreshConfigs
  /\ now = 0
  /\ store = [id \in Ids |-> NoEntry]
  /\ calls = [c \in Calls |-> IdleCall]
  /\ produced = [id \in Ids |-> NoEntry]
  /\ engine = "started"
  /\ fsQueue = [key \in Keys |-> NoOp]
  /\ ops = [i \in Ops |-> NewOp]

NextFresh ==
  \/ \E c \in Calls, req \in DatedRequests : HandleCall(c, req)
  \/ \E c \in Calls : HandleGet(c)
  \/ \E c \in Calls, res \in AllFreshResponses : ForwardFresh(c, res)
  \/ \E c \in Calls : SetResolves(c)
  \/ Tick

SpecFresh == InitFresh /\ [][NextFresh]_vars

(***************************************************************************)
(* The stream serializer with a caller that reads the returned body only   *)
(* once handle has resolved: the source flows into the PassThrough while   *)
(* the pipe is not paused, and the forwarded call, the store, the stream   *)
(* and the caller each take their step when they can.                      *)
(***************************************************************************)
FlowConfigs == {k \in AsyncConfigs : k.serializer = "stream"}

\* The requests the stream transport answers with a body.
FlowRequests == {r \in Requests : r.method = "GET"}

\* The stream emits its next chunk to the 'data' listener and the pipe.
StreamFlows(c) ==
  /\ calls[c].pc = "stream"
  /\ calls[c].stream.left # <<>>
  /\ ~paused(calls[c].stream)
  /\ calls' = [calls EXCEPT ![c].stream =
                 [pipeData(onData(@, Head(@.left)), Head(@.left))
                    EXCEPT !.left = Tail(@)]]
  /\ UNCHANGED <<config, now, store, produced, engine, fsQueue, ops>>

\* The stream, flowing, reaches its end and emits 'end'.
StreamFinishes(c) ==
  /\ calls[c].pc = "stream"
  /\ calls[c].stream.left = <<>>
  /\ ~paused(calls[c].stream)
  /\ calls' = [calls EXCEPT ![c] =
                 setCache([calls[c] EXCEPT !.stream = pipeEnd(@)], NoEntry,
                          onEndContents(calls[c].stream))]
  /\ UNCHANGED <<config, now, store, produced, engine, fsQueue, ops>>

\* The caller, holding the response handle resolved with, reads the next
\* chunk of its body.
CallerReads(c) ==
  /\ calls[c].outcome = "resolved"
  /\ calls[c].stream # NoStream
  /\ calls[c].stream.read < Len(calls[c].stream.piped)
  /\ calls' = [calls EXCEPT ![c].stream.read = @ + 1]
  /\ UNCHANGED <<config, now, store, produced, engine, fsQueue, ops>>

InitFlow ==
  /\ config \in FlowConfigs
  /\ now = 0
  /\ store = [id \in Ids |-> NoEntry]
  /\ calls = [c \in Calls |-> IdleCall]
  /\ produced = [id \in Ids |-> NoEntry]
  /\ engine = "started"
  /\ fsQueue = [key \in Keys |-> NoOp]
  /\ ops = [i \in Ops |-> NewOp]

NextFlow ==
  \/ \E c \in Calls, req \in FlowRequests : HandleCall(c, req)
  \/ \E c \in Calls : HandleGet(c)
  \/ \E c \in Calls, res \in AllStreamResponses : ForwardStreams(c, res)
  \/ \E c \in Calls : StreamFlows(c)
  \/ \E c \in Calls : StreamFinishes(c)
  \/ \E c \in Calls : CallerReads(c)
  \/ \E c \in Calls : SetResolves(c)

\* The store answers, the forwarded call answers, the stream flows while it is
\* not paused, and the caller keeps reading.
FairFlow ==
  \A c \in Calls :
    /\ WF_vars(HandleGet(c))
    /\ WF_vars(\E res \in AllStreamResponses : ForwardStreams(c, res))
    /\ WF_vars(StreamFlows(c))
    /\ WF_vars(StreamFinishes(c))
    /\ WF_vars(CallerReads(c))
    /\ WF_vars(SetResolves(c))

SpecFlow == InitFlow /\ [][NextFlow]_vars /\ FairFlow

(***************************************************************************)
(* The file store's per-key queue: get, set and del each hand queue(key,   *)
(* handle) a handler that starts a file operation and returns its promise. *)
(* Callers submit between turns of the event loop; the reactions of a      *)
(* settled promise all run before the next submission or completion.       *)
(***************************************************************************)
\* `queue.then(remove, remove)` of an operation whose promise has settled and
\* whose `remove` has yet to run.
removePending(i) == ops[i].st = "finished" /\ ~ops[i].removed

\* The then-callback of a waiting operation whose promise has settled.
handlePending(i) ==
  /\ ops[i].st = "waiting"
  /\ ops[ops[i].after].st = "finished"

\* No reaction of a settled promise is left to run.
Quiescent == \A i \in Ops : ~removePending(i) /\ ~handlePending(i)

\* Store.prototype.queue(key, handle), called by get, set or del: with no
\* entry for the key the handler runs at once and its promise becomes the
\* entry; otherwise the handler is chained to the entry's promise with then,
\* and the entry stays as it is.
queue(i, key) ==
  /\ ops[i].st = "new"
  /\ \A j \in Ops : j < i => ops[j].st # "new"
  /\ Quiescent
  /\ IF fsQueue[key] = NoOp
     THEN /\ ops' = [ops EXCEPT ![i] = [@ EXCEPT !.st = "running", !.key = key]]
          /\ fsQueue' = [fsQueue EXCEPT ![key] = i]
     ELSE /\ ops' = [ops EXCEPT ![i] = [@ EXCEPT !.st = "waiting", !.key = key,
                                                 !.after = fsQueue[key]]]
          /\ UNCHANGED fsQueue
  /\ UNCHANGED <<config, now, store, calls, produced, engine>>

\* The file operation a handler started completes: the promise handle()
\* returned settles.
HandleSettles(i) ==
  /\ ops[i].st = "running"
  /\ Quiescent
  /\ ops' = [ops EXCEPT ![i].st = "finished"]
  /\ UNCHANGED <<config, now, store, calls, produced, engine, fsQueue>>

\* `function remove () { delete fsQueue[key] }`, run when the operation's
\* promise has settled.
remove(i) ==
  /\ removePending(i)
  /\ ops' = [ops EXCEPT ![i].removed = TRUE]
  /\ fsQueue' = [fsQueue EXCEPT ![ops[i].key] = NoOp]
  /\ UNCHANGED <<config, now, store, calls, produced, engine>>

\* The then-callback of queue: `var result = handle(); fsQueue[key] =
\* Promise.resolve(result); return result`. Callbacks of one promise run in the
\* order they were registered: the `remove` of an operation that headed its
\* queue was registered on the same promise before any handler; the `remove`
\* of a chained operation is on the promise then returned, and its place
\* among the handlers depends on the promise implementation.
thenHandle(i) ==
  /\ handlePending(i)
  /\ ops[ops[i].after].after = NoOp => ops[ops[i].after].removed
  /\ \A j \in Ops : (j < i /\ ops[j].after = ops[i].after) => ops[j].st # "waiting"
  /\ ops' = [ops EXCEPT ![i].st = "running"]
  /\ fsQueue' = [fsQueue EXCEPT ![ops[i].key] = i]
  /\ UNCHANGED <<config, now, store, calls, produced, engine>>

InitQueue ==
  /\ Init
  /\ config \in DefaultConfigs

NextQueue ==
  \/ \E i \in Ops, key \in Keys : queue(i, key)
  \/ \E i \in Ops : HandleSettles(i)
  \/ \E i \in Ops : remove(i)
  \/ \E i \in Ops : thenHandle(i)

SpecQueue == InitQueue /\ [][NextQueue]_vars

TypeOK ==
  /\ config \in Configs \cup AsyncConfigs \cup TtlConfigs
  /\ now \in 0..MaxTicks
  /\ \A c \in DOMAIN calls :
       calls[c].pc \in {"idle", "pending", "get", "forward", "stream", "set", "done"}
  /\ engine \in {"starting", "started", "failed"}

(***************************************************************************)
(* Properties.                                                             *)
(***************************************************************************)
\* The Cache-Control directives and max-age (in seconds) of a cached response.
Directives(cache) == cache.headers.cc
HasMaxAge(cache) == \E k \in Directives(cache) : k.d = "max-age"
MaxAgeOf(cache) == (CHOOSE k \in Directives(cache) : k.d = "max-age").n

\* The vary rule as stated: some recorded pair has an absent stored value while
\* the request has that header, or a concrete stored value the request's differs from.
VaryDisqualified(req, cache) ==
  \E i \in DOMAIN cache.varyHeaders :
    \/ /\ cache.varyHeaders[i][2] = Undefined
       /\ req.headers[cache.varyHeaders[i][1]] # Undefined
    \/ /\ cache.varyHeaders[i][2] # Undefined
       /\ req.headers[cache.varyHeaders[i][1]] # cache.varyHeaders[i][2]

\* A handle call that found an entry and ran the standard handler on it.
Looked(k) ==
  k.op = "handle" /\ k.cached # NoEntry /\ config.handler = "standard"

\* C1: under the standard cacheable policy, a call whose forwarded response has
\* status other than 200, or whose request method is not GET, issues no store write.
C1_NoWriteUnlessOkGet ==
  \A c \in Calls :
    (/\ config.cacheable = "standard"
     /\ calls[c].fwd.kind = "response"
     /\ (calls[c].fwd.status # 200 \/ calls[c].req.method # "GET"))
    => calls[c].sets = 0 /\ calls[c].pc # "set"

C1_Witness ==
  \E c \in Calls :
    /\ config.cacheable = "standard"
    /\ calls[c].pc = "done"
    /\ calls[c].fwd.kind = "response"
    /\ calls[c].fwd.status = 200
    /\ calls[c].req.method = "POST"
    /\ calls[c].ranCacheable
    /\ calls[c].sets = 0

\* C2 as stated: an entry with max-age=N is a FRESH_HIT at stored + (N-1) s, and
\* is revalidated at stored + (N+1) s when must-revalidate is absent.
C2_Original ==
  \A c \in Calls :
    (Looked(calls[c]) /\ HasMaxAge(calls[c].cached))
    => /\ calls[c].at = calls[c].cached.stored + MaxAgeOf(calls[c].cached) - 1
          => calls[c].decision = "FRESH_HIT"
       /\ (/\ calls[c].at = calls[c].cached.stored + MaxAgeOf(calls[c].cached) + 1
           /\ Tok("must-revalidate") \notin Directives(calls[c].cached))
          => calls[c].decision = "REVALIDATE"

\* C2 amended: under the standard handler an entry with max-age=N is a FRESH_HIT
\* at stored + (N-1) s provided its Cache-Control has no must-revalidate, has
\* immutable or no no-cache, and the request is not vary-disqualified; at
\* stored + (N+1) s it is revalidated.
C2_MaxAgeWindow ==
  \A c \in Calls :
    (Looked(calls[c]) /\ HasMaxAge(calls[c].cached))
    => /\ (/\ calls[c].at = calls[c].cached.stored + MaxAgeOf(calls[c].cached) - 1
           /\ Tok("must-revalidate") \notin Directives(calls[c].cached)
           /\ \/ Tok("immutable") \in Directives(calls[c].cached)
              \/ Tok("no-cache") \notin Directives(calls[c].cached)
           /\ ~VaryDisqualified(calls[c].req, calls[c].cached))
          => /\ calls[c].decision = "FRESH_HIT"
             /\ calls[c].forwards = 0
             /\ calls[c].result = calls[c].cached
       /\ calls[c].at = calls[c].cached.stored + MaxAgeOf(calls[c].cached) + 1
          => calls[c].decision = "REVALIDATE" /\ calls[c].forwards = 1

C2_Witness ==
  \E c \in Calls :
    /\ Looked(calls[c])
    /\ HasMaxAge(calls[c].cached)
    /\ MaxAgeOf(calls[c].cached) = 2
    /\ calls[c].cached.stored = 1
    /\ calls[c].at = 2
    /\ calls[c].decision = "FRESH_HIT"

\* C3: a FRESH_HIT of the standard handler returns the cached response; the call
\* never forwards, issues no store write and sets no validator on the request.
C3_FreshHitFrame ==
  \A c \in Calls :
    (Looked(calls[c]) /\ calls[c].decision = "FRESH_HIT")
    => /\ calls[c].pc = "done"
       /\ calls[c].outcome = "resolved"
       /\ calls[c].result = CachedResponse(calls[c].found)
       /\ calls[c].forwards = 0
       /\ calls[c].fwd = NoEntry
       /\ calls[c].sets = 0
       /\ calls[c].req.headers["If-None-Match"] = Undefined
       /\ calls[c].req.headers["If-Modified-Since"] = Undefined

C3_Witness ==
  \E c \in Calls :
    /\ Looked(calls[c])
    /\ calls[c].decision = "FRESH_HIT"
    /\ calls[c].pc = "done"
    /\ calls[c].cached.headers.etag # Undefined
    /\ config.cacheable = "always"

\* C4: an entry with no-cache and without immutable is never served by the
\* standard handler without a forwarded call, whatever its age and max-age.
C4_NoCacheForwards ==
  \A c \in Calls :
    (/\ Looked(calls[c])
     /\ Tok("no-cache") \in Directives(calls[c].cached)
     /\ Tok("immutable") \notin Directives(calls[c].cached))
    => calls[c].forwards = 1 /\ calls[c].decision = "REVALIDATE"

C4_Witness ==
  \E c \in Calls :
    /\ Looked(calls[c])
    /\ Tok("no-cache") \in Directives(calls[c].cached)
    /\ Tok("immutable") \notin Directives(calls[c].cached)
    /\ HasMaxAge(calls[c].cached)
    /\ calls[c].at < calls[c].cached.stored + MaxAgeOf(calls[c].cached)
    /\ calls[c].pc = "done"
    /\ calls[c].outcome = "resolved"

\* C5: when revalidation is answered with 304, handle returns the stored
\* entry's body, headers and url with the forwarded status and statusText.
C5_NotModifiedMerge ==
  \A c \in Calls :
    (/\ Looked(calls[c])
     /\ calls[c].pc = "done"
     /\ calls[c].fwd.kind = "response"
     /\ calls[c].fwd.status = 304)
    => /\ calls[c].outcome = "resolved"
       /\ calls[c].result.body = JSONParse(calls[c].found.item.body)
       /\ calls[c].result.headers = calls[c].found.item.rawHeaders
       /\ calls[c].result.url = calls[c].found.item.url
       /\ calls[c].result.status = calls[c].fwd.status
       /\ calls[c].result.statusText = calls[c].fwd.statusText

C5_Witness ==
  \E c \in Calls :
    /\ Looked(calls[c])
    /\ calls[c].pc = "done"
    /\ calls[c].fwd.kind = "response"
    /\ calls[c].fwd.status = 304
    /\ calls[c].found.item.status = 200
    /\ calls[c].result.body = "b1"
    /\ calls[c].result.statusText = "Not Modified"

\* C6: a handle call that ends with a cached response (a FRESH_HIT or a 304
\* merge) ran neither the cacheable predicate nor the serializer and issued no
\* store write, under every cacheable policy.
C6_CachedNotRestored ==
  \A c \in Calls :
    (/\ calls[c].op = "handle"
     /\ calls[c].pc = "done"
     /\ calls[c].outcome = "resolved"
     /\ calls[c].result.cached)
    => /\ ~calls[c].ranCacheable
       /\ ~calls[c].ranStringify
       /\ calls[c].sets = 0

C6_Witness ==
  \E c \in Calls :
    /\ calls[c].op = "handle"
    /\ calls[c].pc = "done"
    /\ calls[c].outcome = "resolved"
    /\ calls[c].result.cached
    /\ config.cacheable = "always"
    /\ calls[c].fwd.kind = "response"
    /\ calls[c].fwd.status = 304

\* C7: with staleFallback on and an entry present, a forwarded call that fails
\* with EUNAVAILABLE makes handle resolve with the stale cached response.
C7_StaleOnUnavailable ==
  \A c \in Calls :
    (/\ calls[c].op = "handle"
     /\ calls[c].pc = "done"
     /\ config.staleFallback
     /\ calls[c].found # NoEntry
     /\ calls[c].fwd = Err("EUNAVAILABLE"))
    => /\ calls[c].outcome = "resolved"
       /\ calls[c].result = CachedResponse(calls[c].found)

C7_Witness ==
  \E c \in Calls :
    /\ calls[c].op = "handle"
    /\ calls[c].pc = "done"
    /\ config.staleFallback
    /\ calls[c].found # NoEntry
    /\ calls[c].found.item.rawHeaders.cc = {Tok("no-cache"), MaxAgeTok(2)}
    /\ calls[c].fwd = Err("EUNAVAILABLE")
    /\ calls[c].outcome = "resolved"

\* C8: with staleFallback on and an entry present, a forwarded 5xx response is
\* replaced by the stale cached entry, with its stored status and body.
C8_StaleOnServerError ==
  \A c \in Calls :
    (/\ calls[c].op = "handle"
     /\ calls[c].pc = "done"
     /\ config.staleFallback
     /\ calls[c].found # NoEntry
     /\ calls[c].fwd.kind = "response"
     /\ StatusType(calls[c].fwd) = 5)
    => /\ calls[c].outcome = "resolved"
       /\ calls[c].result.cached
       /\ calls[c].result.status = calls[c].found.item.status
       /\ calls[c].result.statusText = calls[c].found.item.statusText
       /\ calls[c].result.body = JSONParse(calls[c].found.item.body)
       /\ calls[c].sets = 0

C8_Witness ==
  \E c \in Calls :
    /\ calls[c].op = "handle"
    /\ calls[c].pc = "done"
    /\ config.staleFallback
    /\ calls[c].found # NoEntry
    /\ calls[c].fwd.kind = "response"
    /\ calls[c].fwd.status = 502
    /\ calls[c].result.status = 200
    /\ calls[c].result.body = "b1"

\* C9: a failure of the forwarded call that is not recoverable (staleFallback
\* off, or not EUNAVAILABLE, or no stored entry) rejects the call with that error.
C9_FailurePropagates ==
  \A c \in Calls :
    (/\ calls[c].pc = "done"
     /\ calls[c].fwd.kind = "error"
     /\ \/ ~config.staleFallback
        \/ calls[c].fwd.code # "EUNAVAILABLE"
        \/ calls[c].found = NoEntry)
    => /\ calls[c].outcome = "rejected"
       /\ calls[c].result = calls[c].fwd
       /\ calls[c].sets = 0

C9_Witness ==
  \E c \in Calls :
    /\ calls[c].pc = "done"
    /\ calls[c].op = "handle"
    /\ ~config.staleFallback
    /\ calls[c].found # NoEntry
    /\ calls[c].fwd = Err("EUNAVAILABLE")
    /\ calls[c].outcome = "rejected"

\* C10: under the standard handler a time-fresh entry is revalidated exactly
\* when its varyHeaders disqualify it for the request.
C10_VaryDisqualifies ==
  \A c \in Calls :
    (Looked(calls[c]) /\ calls[c].novalidate)
    => (calls[c].decision = "REVALIDATE"
        <=> VaryDisqualified(calls[c].req, calls[c].cached))

C10_Witness ==
  \E c \in Calls :
    /\ Looked(calls[c])
    /\ calls[c].novalidate
    /\ calls[c].decision = "REVALIDATE"
    /\ calls[c].cached.varyHeaders[1] = <<"Accept-Encoding", "gzip">>
    /\ calls[c].req.headers["Accept-Encoding"] = "br"

\* Pair i of the entry's varyHeaders has an absent stored value.
AbsentPair(cache, i) ==
  i \in DOMAIN cache.varyHeaders /\ cache.varyHeaders[i][2] = Undefined

\* Some pair other than pair i disqualifies the entry for the request.
OtherPairDisqualifies(req, cache, i) ==
  VaryDisqualified(req, [cache EXCEPT !.varyHeaders =
                           SelectSeq(cache.varyHeaders,
                                     LAMBDA p : p # cache.varyHeaders[i])])

\* C11 as stated: a time-fresh entry with a pair whose stored value is absent is
\* a FRESH_HIT for a request that carries the header and is not for one that
\* lacks it.
C11_Original ==
  \A c \in Calls : \A i \in 1..2 :
    (/\ Looked(calls[c])
     /\ calls[c].novalidate
     /\ AbsentPair(calls[c].cached, i))
    => (calls[c].decision = "FRESH_HIT"
        <=> calls[c].req.headers[calls[c].cached.varyHeaders[i][1]] # Undefined)

\* C11 amended: a pair whose stored value is absent means the header must be
\* absent from the request: a time-fresh entry with such a pair is revalidated
\* for a request that carries the header, whatever its value, and is a
\* FRESH_HIT for a request that lacks it unless another pair disqualifies it.
C11_AbsentValueMeansAbsentHeader ==
  \A c \in Calls : \A i \in 1..2 :
    (/\ Looked(calls[c])
     /\ calls[c].novalidate
     /\ AbsentPair(calls[c].cached, i))
    => LET key == calls[c].cached.varyHeaders[i][1]
       IN /\ calls[c].req.headers[key] # Undefined
             => calls[c].decision = "REVALIDATE" /\ calls[c].forwards = 1
          /\ (/\ calls[c].req.headers[key] = Undefined
              /\ ~OtherPairDisqualifies(calls[c].req, calls[c].cached, i))
             => /\ calls[c].decision = "FRESH_HIT"
                /\ calls[c].forwards = 0
                /\ calls[c].result = calls[c].cached

C11_Witness ==
  \E c \in Calls :
    /\ Looked(calls[c])
    /\ calls[c].novalidate
    /\ AbsentPair(calls[c].cached, 1)
    /\ calls[c].cached.varyHeaders[1][1] = "Accept-Encoding"
    /\ calls[c].req.headers["Accept-Encoding"] = "gzip"
    /\ calls[c].decision = "REVALIDATE"
    /\ calls[c].pc = "done"

\* C13: with handlers.always and a stored entry present, handle returns the
\* cached response whatever the entry's age, Cache-Control and varyHeaders, and
\* never forwards during that call.
C13_AlwaysServesCached ==
  \A c \in Calls :
    (/\ config.handler = "always"
     /\ calls[c].op = "handle"
     /\ calls[c].found # NoEntry)
    => /\ calls[c].pc = "done"
       /\ calls[c].outcome = "resolved"
       /\ calls[c].result = CachedResponse(calls[c].found)
       /\ calls[c].forwards = 0
       /\ calls[c].fwd = NoEntry

C13_Witness ==
  \E c \in Calls :
    /\ config.handler = "always"
    /\ calls[c].op = "handle"
    /\ calls[c].found # NoEntry
    /\ calls[c].pc = "done"
    /\ Tok("no-cache") \in Directives(calls[c].cached)
    /\ calls[c].at >= calls[c].cached.stored + MaxAgeOf(calls[c].cached)
    /\ ~novalidate(calls[c].cached, calls[c].at)
    /\ calls[c].result = calls[c].cached

\* C14: every forceUpdate call forwards exactly once and issues no store read;
\* the forwarded response always goes through the store decision (the cacheable
\* predicate, then the serializer and the store write), whether or not a fresh
\* entry exists for the id.
C14_ForceUpdateForwards ==
  \A c \in Calls :
    calls[c].op = "forceUpdate"
    => /\ calls[c].gets = 0
       /\ calls[c].forwards = 1
       /\ calls[c].found = NoEntry
       /\ calls[c].fwd.kind = "response"
          => /\ calls[c].ranCacheable
             /\ calls[c].ranStringify = cacheable(calls[c].req, calls[c].fwd)
             /\ (/\ calls[c].ranStringify
                 /\ JSONStringify(calls[c].fwd.body) # Undefined)
                => /\ calls[c].sets = 1
                   /\ calls[c].pending.item = CacheItem(JSONStringify(calls[c].fwd.body),
                                                        calls[c].fwd)

C14_Witness ==
  \E c \in Calls :
    /\ calls[c].op = "forceUpdate"
    /\ calls[c].pc = "set"
    /\ store[calls[c].id] # NoEntry
    /\ novalidate(CachedResponse(store[calls[c].id]), now)
    /\ store[calls[c].id].item.body = JSONStringify("b1")
    /\ calls[c].gets = 0
    /\ calls[c].forwards = 1
    /\ calls[c].sets = 1
    /\ calls[c].pending.item.body = JSONStringify("b2")

\* The write that produced the entry the call found.
Producer(k) == produced[k.id]

\* C12: a stored entry is a FRESH_HIT only for a request whose values for the
\* headers named in the stored response's Vary equal those of the request that
\* produced the entry; and a time-fresh entry is a FRESH_HIT for a repeat of the
\* request that produced it.
C12_VaryMatchesProducer ==
  \A c \in Calls :
    (Looked(calls[c]) /\ Producer(calls[c]) # NoEntry)
    => /\ calls[c].decision = "FRESH_HIT"
          => \A i \in DOMAIN getVary(Producer(calls[c]).res) :
               LET key == getVary(Producer(calls[c]).res)[i]
               IN calls[c].req.headers[key] = Producer(calls[c]).req.headers[key]
       /\ (/\ calls[c].novalidate
           /\ AsIssued(calls[c].req) = Producer(calls[c]).req)
          => calls[c].decision = "FRESH_HIT"

\* The second of two forceUpdate calls in a row with the same request and
\* forwarded response, its write about to land on the entry of the first.
SecondWrite(c) ==
  /\ calls[c].pc = "set"
  /\ calls[c].op = "forceUpdate"
  /\ store[calls[c].id] # NoEntry
  /\ Producer(calls[c]) # NoEntry
  /\ Producer(calls[c]).op = "forceUpdate"
  /\ Producer(calls[c]).req = AsIssued(calls[c].req)
  /\ Producer(calls[c]).res = calls[c].fwd

Forwarded(k) ==
  IF config.serializer = "stream"
  THEN [k.fwd EXCEPT !.body = PassThrough(k.fwd.body)]
  ELSE k.fwd

\* The errors of one origin ("get", "set" or "serializer") a call met.
ErrorsFrom(k, from) ==
  {k.errors[i].err : i \in {j \in DOMAIN k.errors : k.errors[j].from = from}}

Sunk(k) == {k.sunk[i] : i \in DOMAIN k.sunk}

\* C16: a failed store write and an error the serializer reports to its
\* callback are handed to the catchCacheError sink, and the call still resolves
\* with the forwarded response, with waitForCache off and on.
C16_CacheErrorsSunk ==
  \A c \in Calls :
    \A e \in ErrorsFrom(calls[c], "set") \cup ErrorsFrom(calls[c], "serializer") :
      /\ e \in Sunk(calls[c])
      /\ calls[c].pc = "done"
      /\ calls[c].outcome = "resolved"
      /\ calls[c].result = Forwarded(calls[c])

C16_Witness ==
  \E c \in Calls :
    /\ config.waitForCache
    /\ config.serializer = "stream"
    /\ calls[c].op = "handle"
    /\ calls[c].errors = <<[from |-> "serializer", err |-> Err("ESTREAM")]>>
    /\ calls[c].stream.strings = <<"a">>
    /\ calls[c].sunk = <<Err("ESTREAM")>>
    /\ calls[c].outcome = "resolved"

\* C17: when the store read fails, handle rejects with that error: it does not
\* forward, serves no cached entry and issues no store write.
C17_ReadFailureRejects ==
  \A c \in Calls :
    \A e \in ErrorsFrom(calls[c], "get") :
      /\ calls[c].pc = "done"
      /\ calls[c].outcome = "rejected"
      /\ calls[c].result = e
      /\ calls[c].forwards = 0
      /\ calls[c].fwd = NoEntry
      /\ calls[c].cached = NoEntry
      /\ ~calls[c].ranCacheable
      /\ calls[c].sets = 0
      /\ calls[c].write = "none"

C17_Witness ==
  \E c \in Calls :
    /\ calls[c].op = "handle"
    /\ calls[c].errors = <<[from |-> "get", err |-> Err("ESTORE")]>>
    /\ calls[c].outcome = "rejected"
    /\ store[calls[c].id] # NoEntry
    /\ novalidate(CachedResponse(store[calls[c].id]), now)

\* C18 as stated: every store read error and every store write error is handed
\* to the catchCacheError sink.
C18_Original ==
  \A c \in Calls :
    \A e \in ErrorsFrom(calls[c], "get") \cup ErrorsFrom(calls[c], "set") :
      e \in Sunk(calls[c])

\* C18 amended: every store write error is handed to the catchCacheError sink;
\* a store read error is not: the sink is not invoked and the call rejects
\* with the error.
C18_WriteErrorsSunkReadErrorsThrown ==
  \A c \in Calls :
    /\ \A e \in ErrorsFrom(calls[c], "set") : e \in Sunk(calls[c])
    /\ \A e \in ErrorsFrom(calls[c], "get") :
         /\ calls[c].sunk = <<>>
         /\ calls[c].outcome = "rejected"
         /\ calls[c].result = e

C18_Witness ==
  \E c \in Calls :
    /\ config.serializer = "json"
    /\ calls[c].errors = <<[from |-> "get", err |-> Err("ESTORE")]>>
    /\ calls[c].sunk = <<>>
    /\ calls[c].pc = "done"

\* The serializer's callback was (or will be) given null contents.
NullContents(k) ==
  IF config.serializer = "stream"
  THEN k.stream.left = <<>> /\ onEndContents(k.stream) = Undefined
  ELSE JSONStringify(k.fwd.body) = Undefined

\* C19: with waitForCache on, a call resolves with a cacheable forwarded response
\* only once the serializer's callback has fired and the store write has
\* settled: it landed, or was skipped for null contents, or failed (or the
\* serializer did) and the error was handed to the sink.
C19_WaitsForCache ==
  \A c \in Calls :
    (/\ config.waitForCache
     /\ calls[c].ranStringify
     /\ calls[c].outcome = "resolved")
    => /\ calls[c].callbacks = 1
       /\ calls[c].pc = "done"
       /\ \/ calls[c].write = "landed" /\ calls[c].sets = 1
          \/ /\ calls[c].write = "failed"
             /\ ErrorsFrom(calls[c], "set") # {}
             /\ ErrorsFrom(calls[c], "set") \subseteq Sunk(calls[c])
          \/ /\ calls[c].write = "none"
             /\ calls[c].sets = 0
             /\ \/ NullContents(calls[c])
                \/ /\ ErrorsFrom(calls[c], "serializer") # {}
                   /\ ErrorsFrom(calls[c], "serializer") \subseteq Sunk(calls[c])

C19_Witness ==
  \E c \in Calls :
    /\ config.waitForCache
    /\ config.serializer = "stream"
    /\ calls[c].ranStringify
    /\ calls[c].outcome = "resolved"
    /\ calls[c].stream.strings = <<"a", "b">>
    /\ calls[c].write = "landed"
    /\ store[calls[c].id] # NoEntry
    /\ store[calls[c].id].item.body = "YWI="

\* C20: with waitForCache off, a call resolves with the forwarded response
\* without waiting for the serializer's callback or for the store write (it has
\* resolved whenever either is outstanding), and a callback that fires with
\* contents that are not null issues exactly one store write.
C20_ResolvesWithoutWaiting ==
  \A c \in Calls :
    (~config.waitForCache /\ calls[c].ranStringify)
    => /\ calls[c].pc \in {"stream", "set"} => calls[c].outcome = "resolved"
       /\ (/\ calls[c].callbacks = 1
           /\ ErrorsFrom(calls[c], "serializer") = {}
           /\ ~NullContents(calls[c]))
          => calls[c].sets = 1

\* The number of bytes of a sequence of chunks.
RECURSIVE Bytes(_)
Bytes(chunks) ==
  IF chunks = <<>> THEN 0 ELSE ChunkLength[Head(chunks)] + Bytes(Tail(chunks))

\* The longest prefix of a sequence of chunks that has at most `room` bytes.
RECURSIVE KeptPrefix(_, _)
KeptPrefix(chunks, room) ==
  IF chunks = <<>> \/ ChunkLength[Head(chunks)] > room THEN <<>>
  ELSE <<Head(chunks)>> \o KeptPrefix(Tail(chunks), room - ChunkLength[Head(chunks)])

\* The chunks of the body the call's serializer listens to.
Source(k) == StreamChunks[k.fwd.body]

\* C21: when the source stream has ended, the stream serializer's callback got
\* null contents exactly when the body has more than maxBufferLength bytes: then
\* no store write follows, otherwise the whole body is written, base64-encoded;
\* in both cases the PassThrough was given every chunk of the source in order.
C21_CapDecidesCaching ==
  \A c \in Calls :
    (calls[c].stream # NoStream /\ calls[c].stream.ended)
    => /\ calls[c].callbacks = 1
       /\ calls[c].stream.piped = Source(calls[c])
       /\ IF Bytes(Source(calls[c])) > MaxBufferLength
          THEN /\ calls[c].sets = 0
               /\ calls[c].write = "none"
               /\ calls[c].pending = NoEntry
               /\ calls[c].pc = "done"
          ELSE /\ calls[c].sets = 1
               /\ calls[c].pending.item.body = Base64Concat(Source(calls[c]))

C21_Witness ==
  \E c \in Calls :
    /\ calls[c].stream # NoStream
    /\ calls[c].stream.ended
    /\ Bytes(Source(calls[c])) = MaxBufferLength + 1
    /\ calls[c].stream.piped = Source(calls[c])
    /\ calls[c].sets = 0
    /\ calls[c].outcome = "resolved"
    /\ store[calls[c].id] = NoEntry

\* C22: while the stream serializer consumes a body, the chunks it retains have
\* at most maxBufferLength bytes: they are the longest prefix of the chunks
\* emitted that fits; every chunk emitted, before and after the cap is exceeded,
\* is written to the PassThrough.
C22_RetainedWithinCap ==
  \A c \in Calls :
    calls[c].stream # NoStream
    => /\ Bytes(calls[c].stream.strings) <= MaxBufferLength
       /\ calls[c].stream.piped \o calls[c].stream.left = Source(calls[c])
       /\ calls[c].stream.strings = KeptPrefix(calls[c].stream.piped, MaxBufferLength)

C22_Witness ==
  \E c \in Calls :
    /\ calls[c].stream # NoStream
    /\ Len(calls[c].stream.piped) = 3
    /\ Bytes(calls[c].stream.piped) > MaxBufferLength + 1
    /\ Len(calls[c].stream.strings) < 2
    /\ calls[c].stream.left = <<>>

\* C23: the default id depends on the serializer name, the method and the url
\* only: requests with the same method and url get the same id whatever their
\* headers, the id of a call is still the id of its request once revalidation
\* has set validators on it, and a store write of a call lands on the id the
\* call looked up.
C23_IdFromMethodAndUrl ==
  /\ [](/\ \A r1, r2 \in Requests :
            (r1.method = r2.method /\ r1.url = r2.url) => getId(r1) = getId(r2)
        /\ \A c \in Calls :
            calls[c].op # "none"
            => /\ calls[c].id = getId(calls[c].req)
               /\ \A r \in Requests :
                    (r.method = calls[c].req.method /\ r.url = calls[c].req.url)
                    => getId(r) = calls[c].id)
  /\ [][\A id \in Ids :
          (store'[id] # store[id] /\ store'[id] # NoEntry)
          => \E c \in Calls :
               /\ calls[c].pc = "set"
               /\ id = calls[c].id
               /\ id = getId(calls[c].req)
               /\ id = getId(AsIssued(calls[c].req))]_vars

C23_Witness ==
  \E c \in Calls :
    /\ calls[c].op = "handle"
    /\ calls[c].decision = "REVALIDATE"
    /\ calls[c].req.headers["If-None-Match"] = "123"
    /\ calls[c].req.headers["Accept-Encoding"] = "gzip"
    /\ calls[c].write = "landed"
    /\ calls[c].found.item.body # calls[c].pending.item.body
    /\ store[getId(Req("GET", "/a", Undefined, Undefined))] # NoEntry
    /\ store[getId(Req("GET", "/a", Undefined, Undefined))].item = calls[c].pending.item

\* The freshness window as the precedence states it: max-age, else Expires less
\* Date, else a tenth of Date less Last-Modified, else 0.
Window(res) ==
  IF \E k \in res.headers.cc : k.d = "max-age"
  THEN Num((CHOOSE k \in res.headers.cc : k.d = "max-age").n)
  ELSE IF res.headers.expires # Undefined /\ res.headers.date # Undefined
  THEN JsSub(DateParse(res.headers.expires), DateParse(res.headers.date))
  ELSE IF res.headers.lastModified # Undefined /\ res.headers.date # Undefined
  THEN JsDiv10(JsSub(DateParse(res.headers.date), DateParse(res.headers.lastModified)))
  ELSE Num(0)

\* C24: ttls.standard(minTtl, maxTtl) is minTtl + min(maxTtl, w), w being the
\* freshness window of the response by the precedence max-age, Expires and
\* Date, Last-Modified and Date, 0; and a store write is passed the ttl of the
\* response it writes.
C24_StandardTtl ==
  /\ \A res \in AllDatedResponses :
       \A bounds \in {<<0, OneYear>>, <<1, 2>>, <<0, 0>>} :
         ttls_standard(bounds[1], bounds[2], res)
           = JsAdd(Num(bounds[1]), JsMin(Num(bounds[2]), Window(res)))
  /\ \A c \in Calls :
       (calls[c].pending # NoEntry /\ config.ttl.kind = "standard")
       => calls[c].pending.ttl
            = JsAdd(Num(config.ttl.minTtl),
                    JsMin(Num(config.ttl.maxTtl), Window(calls[c].fwd)))
  /\ \A id \in Ids : \A c \in Calls :
       (/\ calls[c].write = "landed"
        /\ calls[c].id = id
        /\ store[id] # NoEntry)
       => store[id].ttl = calls[c].pending.ttl

C24_Witness ==
  \E c \in Calls :
    /\ config.ttl = [kind |-> "standard", minTtl |-> 1, maxTtl |-> 2]
    /\ calls[c].write = "landed"
    /\ calls[c].fwd.headers.cc = {}
    /\ calls[c].fwd.headers.expires = "@1"
    /\ calls[c].fwd.headers.date = "@0"
    /\ calls[c].fwd.headers.lastModified = "@20"
    /\ calls[c].pending.ttl = Num(2)
    /\ store[calls[c].id] # NoEntry
    /\ store[calls[c].id].ttl = Num(2)

\* A ttl that is a number not below zero, or Infinity.
NonNegative(x) == x.t = "inf" \/ (x.t = "num" /\ x.v >= 0)

\* C25: with the default bounds (0 and one year) the ttl passed to every store
\* write, held by every stored entry and carried by every CachedResponse is
\* non-negative or Infinity, whatever the response's headers.
C25_TtlNonNegative ==
  (config.ttl = [kind |-> "standard", minTtl |-> 0, maxTtl |-> OneYear])
  => /\ \A c \in Calls :
          /\ calls[c].pending # NoEntry => NonNegative(calls[c].pending.ttl)
          /\ calls[c].cached # NoEntry => NonNegative(calls[c].cached.ttl)
     /\ \A id \in Ids : store[id] # NoEntry => NonNegative(store[id].ttl)

\* A handle call that revalidated and whose forwarded call brought a response
\* other than 304, once nothing of the call remains.
RevalidatedAnew(k) ==
  /\ k.op = "handle"
  /\ k.decision = "REVALIDATE"
  /\ k.pc = "done"
  /\ k.fwd.kind = "response"
  /\ k.fwd.status # 304

\* C26 as stated: after a revalidation answered by a response other than 304 the
\* store no longer holds the previous entry for the id.
C26_Original ==
  \A c \in Calls :
    RevalidatedAnew(calls[c])
    => ~(store[calls[c].id] = calls[c].found /\ calls[c].write # "landed")

\* C26 amended: a response other than 304 to a revalidation is returned in
\* place of the cached one, unless it is a 5xx under staleFallback, and goes
\* through the store decision: it is written over the previous entry when the
\* cacheable predicate accepts it and its contents are not null; otherwise no
\* write is issued and the store keeps the previous entry until it expires it.
C26_ReplacedWhenCacheable ==
  \A c \in Calls :
    RevalidatedAnew(calls[c])
    => LET k == calls[c]
           stale == config.staleFallback /\ k.fwd.status \in 500..599
           accepted == \/ config.cacheable = "always"
                       \/ k.fwd.status = 200 /\ k.req.method = "GET"
       IN /\ k.outcome = "resolved"
          /\ k.result = IF stale THEN k.cached ELSE k.fwd
          /\ k.sets = (IF ~stale /\ accepted /\ k.fwd.body # Undefined THEN 1 ELSE 0)
          /\ k.sets = 0 => store[k.id] \in {k.found, NoEntry}
          /\ k.sets = 1
             => /\ k.write = "landed"
                /\ store[k.id] # NoEntry
                   => /\ store[k.id].item = CacheItem(JSONStringify(k.fwd.body), k.fwd)
                      /\ store[k.id].stored >= k.at

C26_Witness ==
  \E c \in Calls :
    /\ RevalidatedAnew(calls[c])
    /\ config.cacheable = "standard"
    /\ calls[c].fwd.status = 404
    /\ calls[c].result = calls[c].fwd
    /\ store[calls[c].id] = calls[c].found
    /\ calls[c].found.item.status = 200

\* The item setCache makes from a response under the standard serializer.
ItemOf(res) == CacheItem(JSONStringify(res.body), res)

\* C27: there is no single-flight deduplication. A handle call's lookup goes
\* ahead whatever the other calls for the id are doing; a call that found
\* nothing, or an entry that needs revalidation, has invoked forward once of
\* its own; and a call whose response was accepted has issued a store write
\* of its own, carrying the item of its own response.
C27_NoSingleFlight ==
  \A c \in DOMAIN calls :
    LET k == calls[c]
    IN /\ k.pc = "get" => ENABLED HandleGet(c)
       /\ (k.op = "handle" /\ k.pc \in {"forward", "set", "done"}) =>
            /\ k.found = NoEntry => (k.decision = "MISS" /\ k.forwards = 1)
            /\ (k.found # NoEntry /\ ~(novalidate(k.cached, k.at) /\ ~varies(k.req, k.cached)))
                 => (k.decision = "REVALIDATE" /\ k.forwards = 1)
       /\ k.pc = "set" => (k.sets = 1 /\ k.pending.item = ItemOf(k.result))
       /\ (k.pc = "done" /\ k.decision \in {"MISS", "REVALIDATE"} /\ k.fwd.kind = "response"
           /\ cacheables_standard(k.req, k.result))
            => (k.sets = 1 /\ k.write = "landed")

\* Every racing call is a handle call that missed, has forwarded and has its
\* own store write in flight, and none of the writes has landed.
C27_Witness ==
  /\ DOMAIN calls = Racers
  /\ \A c \in Racers : /\ calls[c].op = "handle"
                       /\ calls[c].pc = "set"
                       /\ calls[c].decision = "MISS"
                       /\ calls[c].forwards = 1
                       /\ calls[c].sets = 1
                       /\ store[calls[c].id] = NoEntry

\* C28: whatever the interleaving of handle and forceUpdate calls writing one
\* id, the store's entry is at every point the whole item of one response,
\* the one of the write that reached the store last, and a write in flight
\* carries the whole item of its own call's response.
C28_LastWholeItem ==
  /\ \A id \in Ids :
       store[id] # NoEntry =>
         /\ produced[id] # NoEntry
         /\ store[id].item = ItemOf(produced[id].res)
  /\ \A c \in DOMAIN calls :
       calls[c].pc = "set" => calls[c].pending.item = ItemOf(calls[c].result)

\* A forceUpdate and a handle call wrote different responses for the id, both
\* writes have landed, and the store holds the item of the forceUpdate.
C28_Witness ==
  /\ DOMAIN calls = Racers
  /\ calls[1].op = "forceUpdate" /\ calls[2].op = "handle"
  /\ \A c \in {1, 2} : calls[c].pc = "done" /\ calls[c].write = "landed"
  /\ calls[1].id = calls[2].id
  /\ calls[1].result.body = "b1" /\ calls[2].result.body = "b2"
  /\ store[calls[1].id] # NoEntry
  /\ store[calls[1].id].item = ItemOf(calls[1].result)
  /\ store[calls[1].id].item # ItemOf(calls[2].result)

Given(k) ==
  IF k.op = "forceUpdate" \/ k.cached = NoEntry
  THEN k.fwd
  ELSE mergeNotModified(k.cached, k.fwd)

\* C30: under the stream serializer, a call whose accepted response has a
\* body that is no stream is rejected with the TypeError of stringify: the
\* sink has seen nothing, no store write was issued, and the cached response
\* of a revalidation is not returned in its place.
C30_TypeErrorPropagates ==
  \A c \in Calls :
    LET k == calls[c]
    IN (/\ config.serializer = "stream"
        /\ k.ranStringify
        /\ k.fwd.kind = "response"
        /\ ~IsStream(Given(k).body))
       => /\ k.pc = "done"
          /\ k.outcome = "rejected"
          /\ k.result = TypeError
          /\ k.sunk = <<>>
          /\ k.sets = 0 /\ k.write = "none" /\ k.pending = NoEntry

\* With staleFallback on, a revalidation of a stored stream was answered by a
\* 200 whose body is no stream: handle rejected with the TypeError while the
\* cached response was at hand, and the entry is as it was found.
C30_Witness ==
  \E c \in Calls :
    /\ config.serializer = "stream" /\ config.staleFallback
    /\ calls[c].op = "handle"
    /\ calls[c].decision = "REVALIDATE"
    /\ calls[c].cached # NoEntry
    /\ calls[c].fwd.kind = "response" /\ calls[c].fwd.status = 200
    /\ ~IsStream(calls[c].fwd.body)
    /\ calls[c].ranStringify
    /\ calls[c].outcome = "rejected" /\ calls[c].result = TypeError
    /\ calls[c].sets = 0 /\ calls[c].sunk = <<>>
    /\ store[calls[c].id] = calls[c].found

\* The response carries none of max-age, Expires with Date, Last-Modified
\* with Date.
NoFreshness(res) ==
  /\ getCacheControl(res).maxAge.t = "null"
  /\ getExpiresIn(res).t = "null"
  /\ getLastModifiedExpiration(res).t = "null"

\* C31: under the default options a 200 GET response without max-age,
\* Expires with Date or Last-Modified with Date is written with ttl 0; over
\* a store that does not retain such an entry, a handle call that looks the
\* id up after that write misses, forwards, and returns what the forwarded
\* call answered.
C31_ZeroTtlNotReused ==
  \A c \in Calls :
    LET k == calls[c]
    IN /\ (k.pc = "set" /\ NoFreshness(k.result)) => k.pending.ttl = Num(0)
       /\ (/\ k.op = "handle"
           /\ k.pc = "forward"
           /\ produced[k.id] # NoEntry
           /\ NoFreshness(produced[k.id].res))
          => (k.decision = "MISS" /\ k.forwards = 1 /\ store[k.id] = NoEntry)
       /\ (/\ k.op = "handle"
           /\ k.pc = "done"
           /\ k.decision = "MISS"
           /\ k.fwd.kind = "response")
          => (k.outcome = "resolved" /\ k.result = k.fwd)

\* An earlier call wrote a 200 response that carried only an ETag; the next
\* handle call for the id missed, forwarded and returned the 404 it got.
C31_Witness ==
  \E c \in Calls :
    /\ calls[c].op = "handle"
    /\ calls[c].pc = "done"
    /\ calls[c].decision = "MISS"
    /\ calls[c].forwards = 1
    /\ calls[c].fwd.kind = "response" /\ calls[c].fwd.status = 404
    /\ calls[c].result = calls[c].fwd
    /\ produced[calls[c].id] # NoEntry
    /\ produced[calls[c].id].res.status = 200
    /\ produced[calls[c].id].res.headers.etag = "123"
    /\ NoFreshness(produced[calls[c].id].res)
    /\ store[calls[c].id] = NoEntry

AbsentOrUnparsable(h) == h = Undefined \/ DateParse(h).t = "nan"

\* C33: whenever the Expires or the Date header of a response is absent or
\* unparsable its expiresIn is null, and the ttl of the store write made for
\* such a response under ttls.standard is a number.
C33_UnparsableIsNull ==
  \A c \in Calls :
    LET k == calls[c]
    IN (/\ k.fwd.kind = "response"
        /\ \/ AbsentOrUnparsable(ResGet(k.fwd, "Expires"))
           \/ AbsentOrUnparsable(ResGet(k.fwd, "Date")))
       => /\ getExpiresIn(k.fwd) = JsNull
          /\ (k.pending # NoEntry /\ config.ttl.kind = "standard")
               => k.pending.ttl.t = "num"

\* The values JSON represents: strings, plain objects of such, null.
JsonRepresentable == {"b1", "b2", "err", "{success:true}", "null"}

\* C34 as stated: for every body value the standard serializer is given, the
\* parse of the text it handed to its callback is the value, and stringify
\* returns the value itself.
C34_Original ==
  \A c \in Calls :
    /\ (calls[c].cached # NoEntry /\ calls[c].write = "none")
       => /\ calls[c].cached.body = produced[calls[c].id].res.body
          /\ calls[c].cached.body
               = JSONParse(JSONStringify(produced[calls[c].id].res.body))
    /\ (calls[c].ranStringify /\ calls[c].fwd.kind = "response")
       => calls[c].result.body = calls[c].fwd.body

\* C34, amended: for every body value that JSON represents, the parse of the
\* text handed to the callback is the value, so that the body of the cached
\* response is the body that was written; and whatever the value, the body
\* stringify returns to the response is the value itself.
C34_RoundTripOfJsonValues ==
  /\ \A v \in JsonRepresentable : JSONParse(JSONStringify(v)) = v
  /\ \A c \in Calls :
       LET k == calls[c]
       IN /\ (/\ k.cached # NoEntry
              /\ k.write = "none"
              /\ produced[k.id].res.body \in JsonRepresentable)
             => k.cached.body = produced[k.id].res.body
          /\ (k.ranStringify /\ k.fwd.kind = "response")
             => k.result.body = k.fwd.body

\* The object {success: true} was written, and a later handle call was served
\* the cached response, whose body is that object.
C34_Witness ==
  \E c \in Calls :
    /\ calls[c].op = "handle"
    /\ calls[c].decision = "FRESH_HIT"
    /\ calls[c].pc = "done"
    /\ produced[calls[c].id] # NoEntry
    /\ produced[calls[c].id].res.body = "{success:true}"
    /\ calls[c].found.item.body = JSONStringify("{success:true}")
    /\ calls[c].result = calls[c].cached
    /\ calls[c].result.body = "{success:true}"

\* The reference decision of the time freshness, on the parsed directives,
\* the three windows, the time of the lookup and the time of the write.
FreshByReference(immutable, noCache, mustRevalidate, maxAge, expiresIn,
                 lastModifiedExpiration, t, stored) ==
  IF noCache /\ ~immutable THEN FALSE
  ELSE IF maxAge.t # "null"
  THEN JsLt(Num(t), JsAdd(Num(stored), maxAge)) /\ ~mustRevalidate
  ELSE IF expiresIn.t # "null"
  THEN JsLt(Num(t), JsAdd(Num(stored), expiresIn))
  ELSE IF lastModifiedExpiration.t # "null"
  THEN JsLt(Num(t), JsAdd(Num(stored), lastModifiedExpiration))
  ELSE ~mustRevalidate

\* The window the decision is made on, null when there is none.
WindowOf(cache) ==
  IF getCacheControl(cache).maxAge.t # "null" THEN getCacheControl(cache).maxAge
  ELSE IF getExpiresIn(cache).t # "null" THEN getExpiresIn(cache)
  ELSE getLastModifiedExpiration(cache)

\* C35: the standard handler's time-freshness decision on the entry it found
\* equals the reference decision, measured from the entry's store time; a
\* lookup at or after the store time plus the window is never fresh.
C35_FreshnessByReference ==
  \A c \in Calls :
    LET k == calls[c]
    IN Looked(k) =>
         /\ novalidate(k.cached, k.at)
              = FreshByReference(getCacheControl(k.cached).immutable,
                                 getCacheControl(k.cached).noCache,
                                 getCacheControl(k.cached).mustRevalidate,
                                 getCacheControl(k.cached).maxAge,
                                 getExpiresIn(k.cached),
                                 getLastModifiedExpiration(k.cached),
                                 k.at, k.cached.stored)
         /\ (k.decision = "FRESH_HIT") = novalidate(k.cached, k.at)
         /\ (WindowOf(k.cached).t = "num"
             /\ k.at >= k.cached.stored + WindowOf(k.cached).v)
            => k.decision = "REVALIDATE"

\* An entry whose window of 2 s comes from Expires and Date was written at
\* 1 s and looked up at exactly 3 s: it was revalidated.
C35_Witness ==
  \E c \in Calls :
    /\ Looked(calls[c])
    /\ getCacheControl(calls[c].cached).maxAge.t = "null"
    /\ getExpiresIn(calls[c].cached) = Num(2)
    /\ calls[c].cached.stored = 1
    /\ calls[c].at = 3
    /\ calls[c].decision = "REVALIDATE"

\* C36: a handle call has forwarded only once its lookup has completed, and
\* the request of a call that revalidates carries, from the moment forward is
\* invoked, If-None-Match equal to the entry's ETag and If-Modified-Since
\* equal to its Last-Modified; a header whose source the entry lacks is unset.
C36_ValidatorsBeforeForward ==
  \A c \in Calls :
    LET k == calls[c]
    IN k.op = "handle" =>
         /\ k.pc = "get" => k.forwards = 0
         /\ k.forwards > 0 => (k.gets = 1 /\ k.pc # "get")
         /\ k.decision = "REVALIDATE" =>
              /\ k.cached # NoEntry
              /\ k.forwards = 1
              /\ ReqGet(k.req, "If-None-Match") = ResGet(k.cached, "ETag")
              /\ ReqGet(k.req, "If-Modified-Since") = ResGet(k.cached, "Last-Modified")

\* The forwarded call of a revalidation is in flight; the entry has a
\* Last-Modified and no ETag, and the request carries If-Modified-Since only.
C36_Witness ==
  \E c \in Calls :
    /\ calls[c].op = "handle"
    /\ calls[c].decision = "REVALIDATE"
    /\ calls[c].pc = "forward"
    /\ ResGet(calls[c].cached, "Last-Modified") = "@10"
    /\ ResGet(calls[c].cached, "ETag") = Undefined
    /\ ReqGet(calls[c].req, "If-Modified-Since") = "@10"
    /\ ReqGet(calls[c].req, "If-None-Match") = Undefined

\* A handle call that has ended in a FRESH_HIT, in a 304 merge, in stale
\* fallback on an error or a 5xx, or with the cacheable predicate declining.
EndedWithoutWrite(k) ==
  /\ k.op = "handle"
  /\ k.pc = "done"
  /\ \/ k.decision = "FRESH_HIT"
     \/ k.decision = "REVALIDATE" /\ k.fwd.kind = "response" /\ k.fwd.status = 304
     \/ k.decision = "REVALIDATE" /\ k.fwd.kind = "error" /\ k.outcome = "resolved"
     \/ k.decision = "REVALIDATE" /\ k.fwd.kind = "response"
          /\ config.staleFallback /\ k.fwd.status \in 500..599
     \/ k.fwd.kind = "response" /\ k.ranCacheable /\ ~cacheable(k.req, k.fwd)

StaleAt(id, t) ==
  store[id] # NoEntry /\ ~novalidate(CachedResponse(store[id]), t)

Unresolved(k) == k.op = "handle" /\ k.pc \notin {"idle", "done"} /\ k.outcome = "none"

\* C39: with the stream serializer, under either waitForCache, a call of handle
\* eventually resolves with the response whatever the length of the body, when
\* the forwarded call and the store respond and the caller reads the returned
\* body once handle has resolved.
C39_HandleResolves ==
  \A c \in Calls :
    Unresolved(calls[c])
    ~> (calls[c].outcome = "resolved" /\ calls[c].result.kind = "response")

\* handle waits for the cache, the pipe has paused the source with part of the
\* body still to come, and nothing reads the PassThrough.
C39_PausedBeforeResolving ==
  \E c \in Calls :
    /\ config.waitForCache
    /\ Unresolved(calls[c])
    /\ calls[c].pc = "stream"
    /\ paused(calls[c].stream)
    /\ calls[c].stream.left # <<>>
    /\ ~ENABLED NextFlow

\* handle() of the operation has been called.
Started(i) == ops[i].st \in {"running", "finished"}

\* C40: of the operations submitted to the file store on one key, at most one
\* handler is executing at any time, and handlers start in the order of
\* submission.
C40_OneHandlerAtATime ==
  \A i, j \in Ops :
    (i < j /\ ops[i].st # "new" /\ ops[j].st # "new" /\ ops[i].key = ops[j].key)
    => /\ ~(ops[i].st = "running" /\ ops[j].st = "running")
       /\ Started(j) => Started(i)

====
